---------------------------- MODULE Spec2Model ----------------------------
(***************************************************************************)
(* AskNour: the KYC / authentication conversation state machine            *)
(* (kyc_util.py), the auth service (auth_service.py), the auth middleware  *)
(* (auth_middleware.py) and the message entry point (main.py).             *)
(*                                                                         *)
(* Strings are sequences of one-character strings, so that strip(),        *)
(* lower(), upper(), substring tests and the regular expressions of the    *)
(* validators are computed as the code computes them.                      *)
(***************************************************************************)
EXTENDS Integers, Sequences, FiniteSets, TLC

(***************************************************************************)
(* Bounds of the model.                                                    *)
(***************************************************************************)
\* ObjectIds handed out by the store are 1..MaxOid
MaxOid == 3

Convs == {"c1", "c2"}

\* Python None where a document, a token or a view is expected
None == [none |-> TRUE]

(***************************************************************************)
(* Characters and the str methods the code uses.                           *)
(***************************************************************************)
UpperLetters ==
    <<"A", "B", "C", "D", "E", "F", "G", "H", "I", "J", "K", "L", "M",
      "N", "O", "P", "Q", "R", "S", "T", "U", "V", "W", "X", "Y", "Z">>

LowerLetters ==
    <<"a", "b", "c", "d", "e", "f", "g", "h", "i", "j", "k", "l", "m",
      "n", "o", "p", "q", "r", "s", "t", "u", "v", "w", "x", "y", "z">>

Digits == {"0", "1", "2", "3", "4", "5", "6", "7", "8", "9"}

Whitespace == {" ", "\t", "\n", "\r"}

UpperSet == {UpperLetters[i] : i \in 1..26}

LowerSet == {LowerLetters[i] : i \in 1..26}

ToLower == [ch \in UpperSet |-> LowerLetters[CHOOSE i \in 1..26 : UpperLetters[i] = ch]]

ToUpper == [ch \in LowerSet |-> UpperLetters[CHOOSE i \in 1..26 : LowerLetters[i] = ch]]

isalpha(ch) == ch \in UpperSet \/ ch \in LowerSet

isdigit(ch) == ch \in Digits

lower_char(ch) == IF ch \in UpperSet THEN ToLower[ch] ELSE ch

upper_char(ch) == IF ch \in LowerSet THEN ToUpper[ch] ELSE ch

lower(s) == IF Len(s) = 0 THEN <<>> ELSE [i \in 1..Len(s) |-> lower_char(s[i])]

upper(s) == IF Len(s) = 0 THEN <<>> ELSE [i \in 1..Len(s) |-> upper_char(s[i])]

strip(s) ==
    LET keep == {i \in 1..Len(s) : s[i] \notin Whitespace}
    IN  IF keep = {} THEN <<>>
        ELSE SubSeq(s, CHOOSE i \in keep : \A j \in keep : i <= j,
                       CHOOSE i \in keep : \A j \in keep : i >= j)

\* needle in hay
contains(hay, needle) ==
    \E i \in 0..(Len(hay) - Len(needle)) :
        \A j \in 1..Len(needle) : hay[i + j] = needle[j]

(***************************************************************************)
(* Field validators, kyc_util.py.                                          *)
(***************************************************************************)
FACULTIES ==
    { <<"o", "r", "a", "l", " ", "a", "n", "d", " ", "d", "e", "n", "t", "a", "l">>,
      <<"p", "h", "a", "r", "m", "a", "c", "y">>,
      <<"c", "o", "m", "m", "e", "r", "c", "e", " ", "a", "n", "d", " ", "b", "u", "s", "i", "n", "e", "s", "s", " ", "a", "d", "m", "i", "n", "i", "s", "t", "r", "a", "t", "i", "o", "n">>,
      <<"e", "n", "g", "i", "n", "e", "e", "r", "i", "n", "g">>,
      <<"c", "o", "m", "p", "u", "t", "e", "r", " ", "s", "c", "i", "e", "n", "c", "e">>,
      <<"e", "c", "o", "n", "o", "m", "i", "c", "s", " ", "a", "n", "d", " ", "p", "o", "l", "i", "t", "i", "c", "a", "l", " ", "s", "c", "i", "e", "n", "c", "e">> }

\* re.match(r"[^@]+@[^@]+\.[^@]+", email): a prefix match; p is the first "@",
\* q a "." after it with something in between and a non-"@" character behind
is_valid_email(email) ==
    \E p \in 2..Len(email) :
        /\ email[p] = "@"
        /\ \A i \in 1..(p - 1) : email[i] # "@"
        /\ \E q \in (p + 2)..(Len(email) - 1) :
              /\ email[q] = "."
              /\ \A i \in (p + 1)..(q - 1) : email[i] # "@"
              /\ email[q + 1] # "@"

\* re.match(r"^\+?\d{10,15}$", mobile); "$" also matches before one final "\n"
is_valid_mobile(mobile) ==
    LET body == IF Len(mobile) > 0 /\ mobile[1] = "+" THEN Tail(mobile) ELSE mobile
        core == IF Len(body) > 0 /\ body[Len(body)] = "\n"
                THEN SubSeq(body, 1, Len(body) - 1) ELSE body
        Ok(d) == Len(d) >= 10 /\ Len(d) <= 15 /\ \A i \in 1..Len(d) : isdigit(d[i])
    IN  Ok(body) \/ Ok(core)

\* len(name.strip()) >= 2 and re.match(r"^[a-zA-Z\s]+$", name.strip())
validate_name(name) ==
    LET stripped == strip(name)
    IN  /\ Len(stripped) >= 2
        /\ \A i \in 1..Len(stripped) :
              isalpha(stripped[i]) \/ stripped[i] \in Whitespace

validate_faculty(faculty) ==
    LET stripped == strip(faculty)
    IN  IF Len(faculty) = 0 \/ Len(stripped) < 2
        THEN FALSE
        ELSE IF lower(stripped) \in {lower(f) : f \in FACULTIES}
        THEN TRUE
        ELSE /\ Len(stripped) >= 2
             /\ \A i \in 1..Len(stripped) :
                   \/ isalpha(stripped[i])
                   \/ stripped[i] \in Whitespace
                   \/ stripped[i] = "&"

\* a validator that looks at the length alone
is_valid_password_length_only(password) == Len(strip(password)) >= 8

is_valid_password(password) ==
    IF Len(strip(password)) < 8
    THEN FALSE
    ELSE /\ \E i \in 1..Len(password) : isalpha(password[i])
         /\ \E i \in 1..Len(password) : isdigit(password[i])

(***************************************************************************)
(* Intent classifier, kyc_util.py.                                         *)
(***************************************************************************)
login_keywords ==
    << <<"i", " ", "w", "a", "n", "t", " ", "t", "o", " ", "l", "o", "g", "i", "n">>,
       <<"i", " ", "w", "a", "n", "t", " ", "t", "o", " ", "l", "o", "g", " ", "i", "n">>,
       <<"l", "o", "g", "i", "n">>,
       <<"l", "o", "g", " ", "i", "n">>,
       <<"s", "i", "g", "n", " ", "i", "n">>,
       <<"a", "c", "c", "e", "s", "s", " ", "m", "y", " ", "a", "c", "c", "o", "u", "n", "t">>,
       <<"m", "y", " ", "a", "c", "c", "o", "u", "n", "t">>,
       <<"s", "i", "g", "n", "i", "n">> >>

register_keywords ==
    << <<"i", " ", "w", "a", "n", "t", " ", "t", "o", " ", "r", "e", "g", "i", "s", "t", "e", "r">>,
       <<"i", " ", "w", "a", "n", "t", " ", "t", "o", " ", "a", "p", "p", "l", "y">>,
       <<"r", "e", "g", "i", "s", "t", "e", "r">>,
       <<"s", "i", "g", "n", " ", "u", "p">>,
       <<"s", "i", "g", "n", "u", "p">>,
       <<"c", "r", "e", "a", "t", "e", " ", "a", "c", "c", "o", "u", "n", "t">>,
       <<"i", " ", "w", "a", "n", "t", " ", "t", "o", " ", "e", "n", "r", "o", "l", "l">>,
       <<"a", "p", "p", "l", "y", " ", "n", "o", "w">>,
       <<"s", "t", "a", "r", "t", " ", "a", "p", "p", "l", "i", "c", "a", "t", "i", "o", "n">> >>

\* a keyword fallback that looks for the register keywords first
check_application_intent_register_first(user_message) ==
    LET message_lower == strip(lower(user_message))
    IN  IF \E k \in 1..Len(register_keywords) :
               contains(message_lower, register_keywords[k])
        THEN "register"
        ELSE IF \E k \in 1..Len(login_keywords) :
                    contains(message_lower, login_keywords[k])
        THEN "login"
        ELSE "none"

\* keyword fallback; the intent None is written "none"
check_application_intent(user_message) ==
    LET message_lower == strip(lower(user_message))
    IN  IF \E k \in 1..Len(login_keywords) : contains(message_lower, login_keywords[k])
        THEN "login"
        ELSE IF \E k \in 1..Len(register_keywords) :
                    contains(message_lower, register_keywords[k])
        THEN "register"
        ELSE "none"

\* What the language model does in one call: get_llm_instance returns no LLM,
\* llm.invoke raises, or llm.invoke answers with a text.
LLMAnswers ==
    { <<"R", "E", "G", "I", "S", "T", "E", "R">>,
      <<" ", "l", "o", "g", "i", "n", "\n">>,
      <<"N", "O", "N", "E">>,
      <<"S", "u", "r", "e">> }

LLMOutcomes ==
    {[kind |-> "unavailable"], [kind |-> "raises"]}
        \cup {[kind |-> "answer", content |-> a] : a \in LLMAnswers}

(***************************************************************************)
(* Messages a user sends.  Each is the raw text of cl.Message.content.     *)
(***************************************************************************)
\* "Sign up!": contains a register keyword
MsgSignUp == <<"S", "i", "g", "n", " ", "u", "p", "!">>
\* "Log in!": contains a login keyword
MsgLogIn == <<"L", "o", "g", " ", "i", "n", "!">>
\* "Jane Doe " with a trailing blank: a name, and letters enough for a faculty
MsgName == <<"J", "a", "n", "e", " ", "D", "o", "e", " ">>
\* " Jo@X.io" and "jo@x.io": the same address after strip().lower()
MsgEmailRaw == <<" ", "J", "o", "@", "X", ".", "i", "o">>
MsgEmail == <<"j", "o", "@", "x", ".", "i", "o">>
\* "+201234567890"
MsgMobile == <<"+", "2", "0", "1", "2", "3", "4", "5", "6", "7", "8", "9", "0">>
\* "Passw0rd"
MsgPassword == <<"P", "a", "s", "s", "w", "0", "r", "d">>

Messages ==
    {MsgSignUp, MsgLogIn, MsgName, MsgEmailRaw, MsgEmail, MsgMobile, MsgPassword}

\* messages for the classifier and the password validator alone
\* "I want to login"
MsgWantLogin == <<"I", " ", "w", "a", "n", "t", " ", "t", "o", " ", "l", "o", "g", "i", "n">>
\* "register or login": a register keyword, then a login keyword
MsgRegisterOrLogin == <<"r", "e", "g", "i", "s", "t", "e", "r", " ", "o", "r", " ", "l", "o", "g", "i", "n">>
\* "I Want To Apply"
MsgWantApply == <<"I", " ", "W", "a", "n", "t", " ", "T", "o", " ", "A", "p", "p", "l", "y">>
\* "  MY ACCOUNT "
MsgMyAccount == <<" ", " ", "M", "Y", " ", "A", "C", "C", "O", "U", "N", "T", " ">>
\* "hello"
MsgHello == <<"h", "e", "l", "l", "o">>
\* "abcdefgh": eight letters, no digit
MsgLettersOnly == <<"a", "b", "c", "d", "e", "f", "g", "h">>
\* "short1": six characters, one of them a digit
MsgShort == <<"s", "h", "o", "r", "t", "1">>
\* "12345678": eight digits, no letter
MsgDigitsOnly == <<"1", "2", "3", "4", "5", "6", "7", "8">>
\* "  abcd1 ": eight characters, five without the blanks around them
MsgPadded == <<" ", " ", "a", "b", "c", "d", "1", " ">>
\* "": nothing typed
MsgEmpty == <<>>

OtherMessages ==
    {MsgWantLogin, MsgRegisterOrLogin, MsgWantApply, MsgMyAccount, MsgHello,
     MsgLettersOnly, MsgShort, MsgDigitsOnly, MsgPadded, MsgEmpty}

AllMessages == Messages \cup OtherMessages

\* The pure functions of a message, evaluated once for every message.
Computed ==
    [m \in AllMessages |->
        [valid_name |-> validate_name(m),
         valid_email |-> is_valid_email(m),
         valid_mobile |-> is_valid_mobile(m),
         valid_faculty |-> validate_faculty(m),
         valid_password |-> is_valid_password(m),
         stripped |-> strip(m),
         stripped_lower |-> lower(strip(m)),
         keyword_intent |-> check_application_intent(m)]]

\* further texts a language model may answer with: "", " Register ",
\* "LOGIN.", "I think LOGIN"
OtherAnswers ==
    { <<>>,
      <<" ", "R", "e", "g", "i", "s", "t", "e", "r", " ">>,
      <<"L", "O", "G", "I", "N", ".">>,
      <<"I", " ", "t", "h", "i", "n", "k", " ", "L", "O", "G", "I", "N">> }

AllAnswers == LLMAnswers \cup OtherAnswers

\* the answers as they came, neither stripped nor uppercased
AnswerResult_raw == [a \in AllAnswers |-> a]

\* response.content.strip().upper() of every answer of the language model
AnswerResult == [a \in AllAnswers |-> upper(strip(a))]

\* a classifier that falls back to the keywords when the answer is none of
\* REGISTER, LOGIN, NONE
detect_application_intent_fallback_on_other(user_message, llm) ==
    IF llm.kind = "unavailable"
    THEN Computed[user_message].keyword_intent
    ELSE IF llm.kind = "raises"
    THEN Computed[user_message].keyword_intent
    ELSE LET result == AnswerResult[llm.content]
         IN  IF result = <<"R", "E", "G", "I", "S", "T", "E", "R">>
             THEN "register"
             ELSE IF result = <<"L", "O", "G", "I", "N">>
             THEN "login"
             ELSE IF result = <<"N", "O", "N", "E">>
             THEN "none"
             ELSE Computed[user_message].keyword_intent

\* kyc_util.detect_application_intent; the intent None is written "none"
detect_application_intent(user_message, llm) ==
    IF llm.kind = "unavailable"
    THEN Computed[user_message].keyword_intent
    ELSE IF llm.kind = "raises"
    THEN Computed[user_message].keyword_intent
    ELSE LET result == AnswerResult[llm.content]
         IN  IF result = <<"R", "E", "G", "I", "S", "T", "E", "R">>
             THEN "register"
             ELSE IF result = <<"L", "O", "G", "I", "N">>
             THEN "login"
             ELSE "none"

(***************************************************************************)
(* The document store.  db = [users, sessions, next_oid]: the              *)
(* authenticated_users collection, the user_sessions collection and the    *)
(* next ObjectId the server hands out.                                     *)
(***************************************************************************)
TOKEN_EXPIRY_HOURS == 24

\* a timestamp field holding None
NoTime == -1

ObjectId(n) == [oid |-> n]

\* str(ObjectId)
str(id) == [str |-> id.oid]

\* ObjectId(user_id_str)
ObjectIdOf(s) == [oid |-> s.str]

\* bcrypt: the hash is not the password, and checkpw recovers the match
hash_password(password) == [bcrypt |-> password]

verify_password(password, hashed_password) == hashed_password = [bcrypt |-> password]

\* The storage call that raises during this turn, if any.
FailPoints ==
    {"email_exists.find_one", "register_user.find_one", "register_user.insert_one",
     "complete.find_one", "generate.find", "generate.delete_many",
     "generate.insert_one", "authenticate.find_one", "authenticate.update_one",
     "verify.find_session", "verify.find_user", "logout.update_one",
     "cleanup.delete_many"}

\* a register_user that inserts without looking for an existing user
register_user_without_check(kyc_data, session_id, db, fail, t) ==
    LET user_doc ==
            [_id |-> ObjectId(db.next_oid),
             username |-> kyc_data["email"],
             email |-> kyc_data["email"],
             password_hash |-> [bcrypt |-> kyc_data["password"]],
             name |-> kyc_data["name"],
             mobile |-> kyc_data["mobile"],
             faculty |-> kyc_data["faculty"],
             role |-> "user",
             is_active |-> TRUE,
             created_at |-> t,
             last_login |-> -1,
             session_id |-> session_id]
    IN  [user_id |-> [str |-> db.next_oid],
         db |-> [db EXCEPT !.users = @ \cup {user_doc}, !.next_oid = @ + 1]]

\* AuthService.register_user: the new id as a string, or None
register_user(kyc_data, session_id, db, fail, t) ==
    IF fail = "register_user.find_one"
    THEN [user_id |-> None, db |-> db]
    ELSE IF \E u \in db.users :
                u.email = kyc_data["email"] \/ u.username = kyc_data["email"]
    THEN [user_id |-> None, db |-> db]
    ELSE IF fail = "register_user.insert_one"
    THEN [user_id |-> None, db |-> db]
    ELSE LET user_doc ==
                 [_id |-> ObjectId(db.next_oid),
                  username |-> kyc_data["email"],
                  email |-> kyc_data["email"],
                  password_hash |-> hash_password(kyc_data["password"]),
                  name |-> kyc_data["name"],
                  mobile |-> kyc_data["mobile"],
                  faculty |-> kyc_data["faculty"],
                  role |-> "user",
                  is_active |-> TRUE,
                  created_at |-> t,
                  last_login |-> NoTime,
                  session_id |-> session_id]
         IN  [user_id |-> str(user_doc._id),
              db |-> [db EXCEPT !.users = @ \cup {user_doc}, !.next_oid = @ + 1]]

\* The store calls of register_user one by one, for server processes whose
\* calls interleave at the store.
\* find_one({"$or": [{"email": email}, {"username": email}]})
existing_user(db, kyc_data) ==
    {u \in db.users : u.email = kyc_data["email"] \/ u.username = kyc_data["email"]}

\* user_doc of register_user, built at time t
new_user_doc(kyc_data, session_id, t) ==
    [username |-> kyc_data["email"],
     email |-> kyc_data["email"],
     password_hash |-> hash_password(kyc_data["password"]),
     name |-> kyc_data["name"],
     mobile |-> kyc_data["mobile"],
     faculty |-> kyc_data["faculty"],
     role |-> "user",
     is_active |-> TRUE,
     created_at |-> t,
     last_login |-> NoTime,
     session_id |-> session_id]

\* insert_one(user_doc): the store gives the record its _id
insert_user(db, user_doc) ==
    [db EXCEPT !.users = @ \cup {[_id |-> ObjectId(db.next_oid)] @@ user_doc},
               !.next_oid = @ + 1]

\* a pruning query that skips 5 records
old_sessions_choices_skip5(sessions, user_id) ==
    LET mine == {s \in sessions : s.user_id = user_id}
        n == IF Cardinality(mine) > 5 THEN Cardinality(mine) - 5 ELSE 0
    IN  {old \in SUBSET mine :
            /\ Cardinality(old) = n
            /\ \A d \in old : \A k \in mine \ old : d.created_at <= k.created_at}

\* The documents find(..., sort=[("created_at", -1)], skip=4) may return: all
\* but 4 most recent sessions of the user; equal created_at sort either way.
old_sessions_choices(sessions, user_id) ==
    LET mine == {s \in sessions : s.user_id = user_id}
        n == IF Cardinality(mine) > 4 THEN Cardinality(mine) - 4 ELSE 0
    IN  {old \in SUBSET mine :
            /\ Cardinality(old) = n
            /\ \A d \in old : \A k \in mine \ old : d.created_at <= k.created_at}

\* a generate_jwt_token that stores the new record and deletes none
generate_jwt_token_without_pruning(user, session_id, db, fail, t, old_sessions) ==
    LET payload ==
            [user_id |-> [str |-> user._id.oid],
             username |-> user.username,
             email |-> user.email,
             role |-> user.role,
             exp |-> t + 24,
             iat |-> t,
             session_id |-> session_id]
        session_doc ==
            [_id |-> [oid |-> db.next_oid],
             user_id |-> [str |-> user._id.oid],
             token |-> [jwt |-> payload],
             session_id |-> session_id,
             created_at |-> t,
             expires_at |-> payload.exp,
             is_active |-> TRUE,
             logout_at |-> -1]
    IN  [token |-> [jwt |-> payload],
         db |-> [db EXCEPT !.sessions = @ \cup {session_doc}, !.next_oid = @ + 1]]

\* AuthService.generate_jwt_token: the token, or None when a storage call raises
generate_jwt_token(user, session_id, db, fail, t, old_sessions) ==
    LET payload ==
            [user_id |-> str(user._id),
             username |-> user.username,
             email |-> user.email,
             role |-> user.role,
             exp |-> t + TOKEN_EXPIRY_HOURS,
             iat |-> t,
             session_id |-> session_id]
        token == [jwt |-> payload]
        session_doc ==
            [_id |-> ObjectId(db.next_oid),
             user_id |-> str(user._id),
             token |-> token,
             session_id |-> session_id,
             created_at |-> t,
             expires_at |-> payload.exp,
             is_active |-> TRUE,
             logout_at |-> NoTime]
        pruned == [db EXCEPT !.sessions = @ \ old_sessions]
    IN  IF fail = "generate.find"
        THEN [token |-> None, db |-> db]
        ELSE IF old_sessions # {} /\ fail = "generate.delete_many"
        THEN [token |-> None, db |-> db]
        ELSE IF fail = "generate.insert_one"
        THEN [token |-> None, db |-> pruned]
        ELSE [token |-> token,
              db |-> [pruned EXCEPT !.sessions = @ \cup {session_doc},
                                    !.next_oid = @ + 1]]

\* The store calls of generate_jwt_token one by one, for server processes
\* whose calls interleave at the store.
\* session_doc, built at time t before the store is read
new_session_doc(user, session_id, t) ==
    [user_id |-> str(user._id),
     token |-> [jwt |-> [user_id |-> str(user._id),
                         username |-> user.username,
                         email |-> user.email,
                         role |-> user.role,
                         exp |-> t + TOKEN_EXPIRY_HOURS,
                         iat |-> t,
                         session_id |-> session_id]],
     session_id |-> session_id,
     created_at |-> t,
     expires_at |-> t + TOKEN_EXPIRY_HOURS,
     is_active |-> TRUE,
     logout_at |-> NoTime]

\* if old_sessions: delete_many({"_id": {"$in": old_session_ids}})
delete_old_sessions(db, old_sessions) ==
    IF old_sessions # {}
    THEN [db EXCEPT !.sessions = @ \ old_sessions]
    ELSE db

\* an insert that first deletes all but the 4 most recent records of the user
insert_session_pruning(db, session_doc) ==
    LET old == CHOOSE o \in old_sessions_choices(db.sessions, session_doc.user_id) : TRUE
    IN  [db EXCEPT !.sessions = (@ \ old) \cup
                       {[_id |-> ObjectId(db.next_oid)] @@ session_doc},
                   !.next_oid = @ + 1]

\* insert_one(session_doc): the store gives the record its _id
insert_session(db, session_doc) ==
    [db EXCEPT !.sessions = @ \cup {[_id |-> ObjectId(db.next_oid)] @@ session_doc},
               !.next_oid = @ + 1]

\* a lookup that leaves out the is_active condition
authenticate_candidates_any_status(users, username) ==
    {u \in users : u.username = lower(username) \/ u.email = lower(username)}

\* the documents find_one of authenticate_user may return
authenticate_candidates(users, username) ==
    {u \in users :
        /\ u.username = lower(username) \/ u.email = lower(username)
        /\ u.is_active}

\* authenticate_user that names the user whose password was wrong
authenticate_user_naming_user(username, password, session_id, db, fail, t, user, old_sessions) ==
    LET rejected == [token |-> None, user_data |-> None, db |-> db]
    IN  IF fail = "authenticate.find_one" THEN rejected
        ELSE IF user = None THEN rejected
        ELSE IF ~verify_password(password, user.password_hash)
        THEN [token |-> None, user_data |-> [email |-> user.email], db |-> db]
        ELSE IF fail = "authenticate.update_one" THEN rejected
        ELSE LET db1 == [db EXCEPT !.users =
                            (@ \ {user}) \cup {[user EXCEPT !.last_login = t]}]
                 g == generate_jwt_token(user, session_id, db1, fail, t, old_sessions)
                 user_data ==
                     [user_id |-> str(user._id),
                      username |-> user.username,
                      email |-> user.email,
                      name |-> user.name,
                      mobile |-> user.mobile,
                      faculty |-> user.faculty,
                      role |-> user.role,
                      last_login |-> user.last_login]
             IN  [token |-> g.token, user_data |-> user_data, db |-> g.db]

\* AuthService.authenticate_user; user is the document find_one returned
\* (None when there is none), old_sessions what the pruning query returned
authenticate_user(username, password, session_id, db, fail, t, user, old_sessions) ==
    LET rejected == [token |-> None, user_data |-> None, db |-> db]
    IN  IF fail = "authenticate.find_one" THEN rejected
        ELSE IF user = None THEN rejected
        ELSE IF ~verify_password(password, user.password_hash) THEN rejected
        ELSE IF fail = "authenticate.update_one" THEN rejected
        ELSE LET db1 == [db EXCEPT !.users =
                            (@ \ {user}) \cup {[user EXCEPT !.last_login = t]}]
                 g == generate_jwt_token(user, session_id, db1, fail, t, old_sessions)
                 user_data ==
                     [user_id |-> str(user._id),
                      username |-> user.username,
                      email |-> user.email,
                      name |-> user.name,
                      mobile |-> user.mobile,
                      faculty |-> user.faculty,
                      role |-> user.role,
                      last_login |-> user.last_login]
             IN  [token |-> g.token, user_data |-> user_data, db |-> g.db]

\* a verify_token that trusts the signed payload and reads no session record
verify_token_without_session(token, db, fail, t) ==
    IF token.jwt.exp <= t THEN None
    ELSE LET users == {u \in db.users : str(u._id) = token.jwt.user_id /\ u.is_active}
         IN  IF users = {} THEN None
             ELSE LET user == CHOOSE u \in users : TRUE
                  IN  [user_id |-> str(user._id),
                       username |-> user.username,
                       email |-> user.email,
                       name |-> user.name,
                       mobile |-> user.mobile,
                       faculty |-> user.faculty,
                       role |-> user.role,
                       session_id |-> token.jwt.session_id,
                       token |-> token]

\* AuthService.verify_token: the view of the user, or None.  The user is
\* looked up with the session's user_id, a string, as _id.
verify_token(token, db, fail, t) ==
    IF token.jwt.exp <= t THEN None
    ELSE IF fail = "verify.find_session" THEN None
    ELSE LET found == {s \in db.sessions :
                          s.token = token /\ s.is_active /\ s.expires_at > t}
         IN  IF found = {} THEN None
             ELSE IF fail = "verify.find_user" THEN None
             ELSE LET session == CHOOSE s \in found : TRUE
                      users == {u \in db.users : u._id = session.user_id /\ u.is_active}
                  IN  IF users = {} THEN None
                      ELSE LET user == CHOOSE u \in users : TRUE
                           IN  [user_id |-> str(user._id),
                                username |-> user.username,
                                email |-> user.email,
                                name |-> user.name,
                                mobile |-> user.mobile,
                                faculty |-> user.faculty,
                                role |-> user.role,
                                session_id |-> token.jwt.session_id,
                                token |-> token]

\* the documents update_one({"token": token}) of logout_user may modify
logout_candidates(sessions, token) == {s \in sessions : s.token = token}

\* a logout that stamps the record and leaves it active
logout_user_keeps_active(token, db, fail, t, doc, modified) ==
    IF fail = "logout.update_one" THEN [success |-> FALSE, db |-> db]
    ELSE IF doc = None THEN [success |-> FALSE, db |-> db]
    ELSE [success |-> modified,
          db |-> [db EXCEPT !.sessions =
                     (@ \ {doc}) \cup {[doc EXCEPT !.logout_at = t]}]]

\* AuthService.logout_user; doc is the record update_one matched (None when
\* there is none), modified whether the $set changed it
logout_user(token, db, fail, t, doc, modified) ==
    IF fail = "logout.update_one" THEN [success |-> FALSE, db |-> db]
    ELSE IF doc = None THEN [success |-> FALSE, db |-> db]
    ELSE [success |-> modified,
          db |-> [db EXCEPT !.sessions =
                     (@ \ {doc}) \cup {[doc EXCEPT !.is_active = FALSE,
                                                   !.logout_at = t]}]]

\* a filter that also matches the records expiring in the next 24 hours
expired_sessions_soon(sessions, t) ==
    {s \in sessions : s.expires_at < t + TOKEN_EXPIRY_HOURS}

\* the records delete_many({"expires_at": {"$lt": datetime.utcnow()}}) matches
expired_sessions(sessions, t) == {s \in sessions : s.expires_at < t}

\* a cleanup without the try/except: the error of delete_many reaches the
\* caller
cleanup_expired_sessions_propagating(db, fail, t) ==
    IF fail = "cleanup.delete_many"
    THEN [raised |-> TRUE, db |-> db]
    ELSE LET expired == {s \in db.sessions : s.expires_at < t}
         IN  [deleted_count |-> Cardinality(expired),
              db |-> [db EXCEPT !.sessions = @ \ expired]]

\* AuthService.cleanup_expired_sessions: the number of records deleted
cleanup_expired_sessions(db, fail, t) ==
    IF fail = "cleanup.delete_many"
    THEN [deleted_count |-> 0, db |-> db]
    ELSE LET expired == expired_sessions(db.sessions, t)
         IN  [deleted_count |-> Cardinality(expired),
              db |-> [db EXCEPT !.sessions = @ \ expired]]

(***************************************************************************)
(* The per-conversation session (cl.user_session) and the auth middleware. *)
(* A key that was never set reads as its default.                          *)
(***************************************************************************)
EmptyDict == <<>>

FreshSession ==
    [kyc_step |-> 0,
     auth_mode |-> "none",
     kyc_data |-> EmptyDict,
     is_authenticated |-> FALSE,
     authenticated_user |-> None,
     auth_token |-> None,
     jwt_token |-> None]

\* an assignment that drops the fields stored before
SetItem_alone(kyc_data, key, value) == (key :> value)

\* kyc_data[key] = value
SetItem(kyc_data, key, value) == (key :> value) @@ kyc_data

\* a clearing that resets the flag and the user and keeps the token
clear_auth_session_keeping_token(sess) ==
    [sess EXCEPT !.authenticated_user = None, !.is_authenticated = FALSE]

\* AuthMiddleware.clear_auth_session
clear_auth_session(sess) ==
    [sess EXCEPT !.auth_token = None,
                 !.authenticated_user = None,
                 !.is_authenticated = FALSE]

\* set_authenticated_user that leaves the token key unset
set_authenticated_user_without_token(sess, token, user_data) ==
    [sess EXCEPT !.authenticated_user = user_data,
                 !.is_authenticated = TRUE]

\* AuthMiddleware.set_authenticated_user
set_authenticated_user(sess, token, user_data) ==
    [sess EXCEPT !.auth_token = token,
                 !.authenticated_user = user_data,
                 !.is_authenticated = TRUE]

\* a get_current_user that answers from the session and verifies no token
get_current_user_from_session(sess, db, fail, t) ==
    IF ~sess.is_authenticated
    THEN [user |-> None, sess |-> sess]
    ELSE [user |-> sess.authenticated_user, sess |-> sess]

\* AuthMiddleware.get_current_user: the user it returns and the session it leaves
get_current_user(sess, db, fail, t) ==
    IF ~sess.is_authenticated
    THEN [user |-> None, sess |-> sess]
    ELSE IF sess.authenticated_user = None
    THEN [user |-> None, sess |-> sess]
    ELSE IF sess.auth_token # None
    THEN LET verified_user == verify_token(sess.auth_token, db, fail, t)
         IN  IF verified_user # None
             THEN [user |-> verified_user,
                   sess |-> [sess EXCEPT !.authenticated_user = verified_user]]
             ELSE [user |-> None, sess |-> clear_auth_session(sess)]
    ELSE [user |-> sess.authenticated_user, sess |-> sess]

\* class UserRole(Enum): the values of the members
UserRole == {"guest", "user", "premium_user", "admin"}

\* AuthMiddleware.get_user_role: the role and the session the call leaves
get_user_role(sess, db, fail, t) ==
    LET g == get_current_user(sess, db, fail, t)
    IN  IF g.user = None
        THEN [role |-> "guest", sess |-> g.sess]
        ELSE IF g.user.role \in UserRole
        THEN [role |-> g.user.role, sess |-> g.sess]
        ELSE [role |-> "user", sess |-> g.sess]

\* role_hierarchy of has_permission
role_hierarchy == [guest |-> 0, user |-> 1, premium_user |-> 2, admin |-> 3]

\* AuthMiddleware.has_permission
has_permission(sess, required_role, db, fail, t) ==
    LET g == get_user_role(sess, db, fail, t)
    IN  [ok |-> role_hierarchy[g.role] >= role_hierarchy[required_role],
         sess |-> g.sess]

\* AuthMiddleware.is_authenticated: the answer and the session the call leaves
is_authenticated(sess, db, fail, t) ==
    LET g == get_current_user(sess, db, fail, t)
    IN  [ok |-> g.user # None, sess |-> g.sess]

\* what a guard's wrapper did: how often it ran the guarded function, whether
\* that function's error reached the caller, the messages it sent
Guarded(runs, raised, messages, sess) ==
    [runs |-> runs, raised |-> raised, messages |-> messages, sess |-> sess]

\* a require_auth wrapper that goes on to the function after the denial
require_auth_without_return(sess, func_raises, db, fail, t) ==
    LET a == is_authenticated(sess, db, fail, t)
    IN  Guarded(1, func_raises,
                IF a.ok THEN <<>> ELSE <<"please_log_in", "login_prompt">>, a.sess)

\* the wrapper of AuthMiddleware.require_auth around a function that raises
\* or returns
require_auth(sess, func_raises, db, fail, t) ==
    LET a == is_authenticated(sess, db, fail, t)
    IN  IF ~a.ok
        THEN Guarded(0, FALSE, <<"please_log_in", "login_prompt">>, a.sess)
        ELSE Guarded(1, func_raises, <<>>, a.sess)

\* a require_role wrapper that goes on to the function after the denial
require_role_without_return(sess, required_role, func_raises, db, fail, fail2, t) ==
    LET h == has_permission(sess, required_role, db, fail, t)
        g == get_user_role(h.sess, db, fail2, t)
    IN  IF ~h.ok
        THEN Guarded(1, func_raises,
                     <<[requires |-> required_role, have |-> g.role]>>, g.sess)
        ELSE Guarded(1, func_raises, <<>>, h.sess)

\* the wrapper of AuthMiddleware.require_role(required_role); fail2 is the
\* fault of the second get_user_role call, made for the denial message
require_role(sess, required_role, func_raises, db, fail, fail2, t) ==
    LET h == has_permission(sess, required_role, db, fail, t)
        g == get_user_role(h.sess, db, fail2, t)
    IN  IF ~h.ok
        THEN Guarded(0, FALSE,
                     <<[requires |-> required_role, have |-> g.role]>>, g.sess)
        ELSE Guarded(1, func_raises, <<>>, h.sess)

\* the guards: require_auth, and require_role of each role (require_user,
\* require_premium and require_admin are three of them)
Guards == {"auth"} \cup UserRole

guard(name, sess, func_raises, db, fail, fail2, t) ==
    IF name = "auth"
    THEN require_auth(sess, func_raises, db, fail, t)
    ELSE require_role(sess, name, func_raises, db, fail, fail2, t)

\* main.initialize_user_session, run by on_chat_start
initialize_user_session(sess, db, fail, t) ==
    LET s1 == [sess EXCEPT !.is_authenticated = FALSE,
                           !.kyc_step = 0,
                           !.kyc_data = EmptyDict,
                           !.auth_mode = "none"]
    IN  IF s1.jwt_token # None
        THEN LET g == get_current_user(s1, db, fail, t)
             IN  IF g.user # None
                 THEN [g.sess EXCEPT !.is_authenticated = TRUE]
                 ELSE [g.sess EXCEPT !.jwt_token = None]
        ELSE s1

(***************************************************************************)
(* The KYC state machine, kyc_util.py.  A handler returns the session it   *)
(* leaves, the store it leaves and its result                              *)
(* (is_kyc_flow, intent_type, response_message).                           *)
(***************************************************************************)
Result(is_kyc_flow, intent_type, response_message) ==
    [is_kyc_flow |-> is_kyc_flow,
     intent_type |-> intent_type,
     response_message |-> response_message]

\* kyc_util.email_exists: looks in the KYC collection (USERS_COLLECTION)
email_exists(email, kyc_docs, fail) ==
    IF fail = "email_exists.find_one"
    THEN FALSE
    ELSE \E d \in kyc_docs : d.email = email

\* kyc_util.complete_user_registration
complete_user_registration(sess, kyc_data, session_id, db, fail, t) ==
    LET r == register_user(kyc_data, session_id, db, fail, t)
    IN  IF r.user_id # None
        THEN IF fail = "complete.find_one"
             THEN [success |-> FALSE, message |-> "registration_failed_technical",
                   sess |-> sess, db |-> r.db]
             ELSE LET found == {u \in r.db.users : u._id = ObjectIdOf(r.user_id)}
                  IN  IF found # {}
                      THEN LET user_data == CHOOSE u \in found : TRUE
                               old == CHOOSE o \in old_sessions_choices(
                                          r.db.sessions, str(user_data._id)) : TRUE
                               g == generate_jwt_token(user_data, session_id, r.db,
                                                       fail, t, old)
                           IN  [success |-> TRUE,
                                message |-> "registration_successful",
                                sess |-> [sess EXCEPT !.jwt_token = g.token,
                                                      !.is_authenticated = TRUE],
                                db |-> g.db]
                      ELSE [success |-> FALSE,
                            message |-> "registration_failed_no_user_data",
                            sess |-> sess, db |-> r.db]
        ELSE [success |-> FALSE, message |-> "registration_failed_exists_or_invalid",
              sess |-> sess, db |-> r.db]

\* kyc_util.attempt_user_login
attempt_user_login(sess, email, password, session_id, db, fail, t, user, old_sessions) ==
    LET a == authenticate_user(email, password, session_id, db, fail, t,
                               user, old_sessions)
    IN  IF a.token # None /\ a.user_data # None
        THEN [success |-> TRUE, message |-> "login_successful",
              sess |-> set_authenticated_user(sess, a.token, a.user_data),
              db |-> a.db]
        ELSE [success |-> FALSE, message |-> "login_failed_invalid",
              sess |-> sess, db |-> a.db]

\* start_flow that sets only the step
start_flow_without_mode(sess, mode) == [sess EXCEPT !.kyc_step = 1]

\* cl.user_session.set("auth_mode", mode); cl.user_session.set("kyc_step", 1)
start_flow(sess, mode) == [sess EXCEPT !.auth_mode = mode, !.kyc_step = 1]

\* store_and_advance that stores the value and forgets the step
store_and_advance_keeps_step(sess, key, value, step) ==
    [sess EXCEPT !.kyc_data = SetItem(sess.kyc_data, key, value)]

\* kyc_data[key] = value; set("kyc_data", kyc_data); set("kyc_step", step)
store_and_advance(sess, key, value, step) ==
    [sess EXCEPT !.kyc_data = SetItem(sess.kyc_data, key, value),
                 !.kyc_step = step]

\* a rejected input that sends the flow back to its first step
reprompt_restarting(sess, db, intent_type, response_message) ==
    [sess |-> [sess EXCEPT !.kyc_step = 1, !.kyc_data = EmptyDict],
     db |-> db,
     result |-> Result(TRUE, intent_type, response_message)]

\* the return of a step whose input was rejected: nothing is set
reprompt(sess, db, intent_type, response_message) ==
    [sess |-> sess, db |-> db, result |-> Result(TRUE, intent_type, response_message)]

\* a reset that forgets auth_mode
reset_kyc_session_keeps_mode(sess) ==
    [sess EXCEPT !.kyc_step = 0, !.kyc_data = EmptyDict]

\* set("kyc_step", 0); set("kyc_data", {}); set("auth_mode", None)
reset_kyc_session(sess) ==
    [sess EXCEPT !.kyc_step = 0, !.kyc_data = EmptyDict, !.auth_mode = "none"]

\* a reset that is done only when the registration succeeded
finish_registration_reset_on_success(done) ==
    [sess |-> IF done.success THEN reset_kyc_session(done.sess) ELSE done.sess,
     db |-> done.db,
     result |-> Result(TRUE, "register_complete", done.message)]

\* register step 5 after complete_user_registration returned (success, message)
finish_registration(done) ==
    [sess |-> reset_kyc_session(done.sess),
     db |-> done.db,
     result |-> Result(TRUE, "register_complete", done.message)]

\* a failed login that resets the whole flow
retry_login_full_reset(sess) ==
    [sess EXCEPT !.kyc_step = 0, !.kyc_data = EmptyDict, !.auth_mode = "none"]

\* login step 2 after a failed attempt: set("kyc_step", 1); set("kyc_data", {})
retry_login(sess) == [sess EXCEPT !.kyc_step = 1, !.kyc_data = EmptyDict]

\* a registration flow whose step 5 registers with whatever text it is sent
handle_registration_flow_any_password(sess, user_message, session_id, db, kyc_docs, fail, t) ==
    LET kyc_data == sess.kyc_data
        kyc_step == sess.kyc_step
        Advance(key, value, step, response) ==
            [sess |-> store_and_advance(sess, key, value, step),
             db |-> db,
             result |-> Result(TRUE, "register", response)]
    IN  IF kyc_step = 1
        THEN IF Computed[user_message].valid_name
             THEN Advance("name", Computed[user_message].stripped, 2, "ask_email")
             ELSE reprompt(sess, db, "register", "invalid_name")
        ELSE IF kyc_step = 2
        THEN IF Computed[user_message].valid_email
             THEN IF email_exists(Computed[user_message].stripped_lower, kyc_docs, fail)
                  THEN reprompt(sess, db, "register",
                                "email_already_registered_try_login")
                  ELSE Advance("email", Computed[user_message].stripped_lower, 3, "ask_mobile")
             ELSE reprompt(sess, db, "register", "invalid_email")
        ELSE IF kyc_step = 3
        THEN IF Computed[user_message].valid_mobile
             THEN Advance("mobile", Computed[user_message].stripped, 4, "ask_faculty")
             ELSE reprompt(sess, db, "register", "invalid_mobile")
        ELSE IF kyc_step = 4
        THEN IF Computed[user_message].valid_faculty
             THEN Advance("faculty", Computed[user_message].stripped, 5, "ask_password")
             ELSE reprompt(sess, db, "register", "invalid_faculty")
        ELSE IF kyc_step = 5
        THEN IF TRUE
             THEN LET data == SetItem(kyc_data, "password", Computed[user_message].stripped)
                  IN  finish_registration(
                          complete_user_registration(
                              [sess EXCEPT !.kyc_data = data], data,
                              session_id, db, fail, t))
             ELSE reprompt(sess, db, "register", "invalid_password")
        ELSE [sess |-> sess, db |-> db, result |-> Result(FALSE, "none", "none")]

\* kyc_util.handle_registration_flow
handle_registration_flow(sess, user_message, session_id, db, kyc_docs, fail, t) ==
    LET kyc_data == sess.kyc_data
        kyc_step == sess.kyc_step
        Advance(key, value, step, response) ==
            [sess |-> store_and_advance(sess, key, value, step),
             db |-> db,
             result |-> Result(TRUE, "register", response)]
    IN  IF kyc_step = 1
        THEN IF Computed[user_message].valid_name
             THEN Advance("name", Computed[user_message].stripped, 2, "ask_email")
             ELSE reprompt(sess, db, "register", "invalid_name")
        ELSE IF kyc_step = 2
        THEN IF Computed[user_message].valid_email
             THEN IF email_exists(Computed[user_message].stripped_lower, kyc_docs, fail)
                  THEN reprompt(sess, db, "register",
                                "email_already_registered_try_login")
                  ELSE Advance("email", Computed[user_message].stripped_lower, 3, "ask_mobile")
             ELSE reprompt(sess, db, "register", "invalid_email")
        ELSE IF kyc_step = 3
        THEN IF Computed[user_message].valid_mobile
             THEN Advance("mobile", Computed[user_message].stripped, 4, "ask_faculty")
             ELSE reprompt(sess, db, "register", "invalid_mobile")
        ELSE IF kyc_step = 4
        THEN IF Computed[user_message].valid_faculty
             THEN Advance("faculty", Computed[user_message].stripped, 5, "ask_password")
             ELSE reprompt(sess, db, "register", "invalid_faculty")
        ELSE IF kyc_step = 5
        THEN IF Computed[user_message].valid_password
             THEN LET data == SetItem(kyc_data, "password", Computed[user_message].stripped)
                  IN  finish_registration(
                          complete_user_registration(
                              [sess EXCEPT !.kyc_data = data], data,
                              session_id, db, fail, t))
             ELSE reprompt(sess, db, "register", "invalid_password")
        ELSE [sess |-> sess, db |-> db, result |-> Result(FALSE, "none", "none")]

\* a login flow that keeps the credentials of a failed attempt
handle_login_flow_keeping_credentials(sess, user_message, session_id, db, fail, t, user, old_sessions) ==
    LET kyc_data == sess.kyc_data
        kyc_step == sess.kyc_step
    IN  IF kyc_step = 1
        THEN IF Computed[user_message].valid_email
             THEN [sess |-> store_and_advance(sess, "email",
                                              Computed[user_message].stripped_lower, 2),
                   db |-> db,
                   result |-> Result(TRUE, "login", "ask_password")]
             ELSE reprompt(sess, db, "login", "invalid_email")
        ELSE IF kyc_step = 2
        THEN LET data == SetItem(kyc_data, "password", Computed[user_message].stripped)
                 try == attempt_user_login([sess EXCEPT !.kyc_data = data],
                                           data["email"], data["password"],
                                           session_id, db, fail, t, user, old_sessions)
             IN  IF try.success
                 THEN [sess |-> reset_kyc_session(try.sess),
                       db |-> try.db,
                       result |-> Result(TRUE, "login_complete", try.message)]
                 ELSE [sess |-> [try.sess EXCEPT !.kyc_step = 1],
                       db |-> try.db,
                       result |-> Result(TRUE, "login_failed",
                                         "login_failed_invalid_then_ask_email")]
        ELSE [sess |-> sess, db |-> db, result |-> Result(FALSE, "none", "none")]

\* kyc_util.handle_login_flow
handle_login_flow(sess, user_message, session_id, db, fail, t, user, old_sessions) ==
    LET kyc_data == sess.kyc_data
        kyc_step == sess.kyc_step
    IN  IF kyc_step = 1
        THEN IF Computed[user_message].valid_email
             THEN [sess |-> store_and_advance(sess, "email",
                                              Computed[user_message].stripped_lower, 2),
                   db |-> db,
                   result |-> Result(TRUE, "login", "ask_password")]
             ELSE reprompt(sess, db, "login", "invalid_email")
        ELSE IF kyc_step = 2
        THEN LET data == SetItem(kyc_data, "password", Computed[user_message].stripped)
                 try == attempt_user_login([sess EXCEPT !.kyc_data = data],
                                           data["email"], data["password"],
                                           session_id, db, fail, t, user, old_sessions)
             IN  IF try.success
                 THEN [sess |-> reset_kyc_session(try.sess),
                       db |-> try.db,
                       result |-> Result(TRUE, "login_complete", try.message)]
                 ELSE [sess |-> retry_login(try.sess),
                       db |-> try.db,
                       result |-> Result(TRUE, "login_failed",
                                         "login_failed_invalid_then_ask_email")]
        ELSE [sess |-> sess, db |-> db, result |-> Result(FALSE, "none", "none")]

\* handle_kyc that classifies every message and lets another intent replace
\* the active flow
handle_kyc_reclassifying(sess, user_message, llm, session_id, db, kyc_docs, fail, t, user, old_sessions) ==
    LET intent == detect_application_intent(user_message, llm)
    IN  IF intent = "register" /\ sess.auth_mode # "register"
        THEN [sess |-> [sess EXCEPT !.auth_mode = "register", !.kyc_step = 1,
                                    !.kyc_data = EmptyDict],
              db |-> db,
              result |-> Result(TRUE, "register", "ask_name")]
        ELSE IF intent = "login" /\ sess.auth_mode # "login"
        THEN [sess |-> [sess EXCEPT !.auth_mode = "login", !.kyc_step = 1,
                                    !.kyc_data = EmptyDict],
              db |-> db,
              result |-> Result(TRUE, "login", "ask_email")]
        ELSE IF sess.auth_mode = "register"
        THEN handle_registration_flow(sess, user_message, session_id, db, kyc_docs,
                                      fail, t)
        ELSE IF sess.auth_mode = "login"
        THEN handle_login_flow(sess, user_message, session_id, db, fail, t,
                               user, old_sessions)
        ELSE [sess |-> sess, db |-> db, result |-> Result(FALSE, "none", "none")]

\* kyc_util.handle_kyc
handle_kyc(sess, user_message, llm, session_id, db, kyc_docs, fail, t, user, old_sessions) ==
    IF sess.kyc_step = 0
    THEN LET intent == detect_application_intent(user_message, llm)
         IN  IF intent = "register"
             THEN [sess |-> start_flow(sess, "register"),
                   db |-> db,
                   result |-> Result(TRUE, "register", "ask_name")]
             ELSE IF intent = "login"
             THEN [sess |-> start_flow(sess, "login"),
                   db |-> db,
                   result |-> Result(TRUE, "login", "ask_email")]
             ELSE [sess |-> sess, db |-> db, result |-> Result(FALSE, "none", "none")]
    ELSE IF sess.auth_mode = "register"
    THEN handle_registration_flow(sess, user_message, session_id, db, kyc_docs, fail, t)
    ELSE IF sess.auth_mode = "login"
    THEN handle_login_flow(sess, user_message, session_id, db, fail, t,
                           user, old_sessions)
    ELSE [sess |-> sess, db |-> db, result |-> Result(FALSE, "none", "none")]

(***************************************************************************)
(* main.handle_message: the turn of one conversation.                      *)
(***************************************************************************)
\* The normal chat flow; when the answer is saved, save_interaction_data
\* calls get_user_context and get_current_user, which both run
\* AuthMiddleware.get_current_user.
normal_chat(sess, db, fail, t, save) ==
    IF save
    THEN get_current_user(get_current_user(sess, db, fail, t).sess, db, fail, t).sess
    ELSE sess

\* called: handle_kyc ran; chat: the normal chat flow ran for the message
handle_message(sess, user_message, llm, session_id, db, kyc_docs, fail, t, save, user, old_sessions) ==
    IF ~sess.is_authenticated
    THEN LET k == handle_kyc(sess, user_message, llm, session_id, db, kyc_docs,
                             fail, t, user, old_sessions)
         IN  IF k.result.is_kyc_flow
             THEN [sess |-> k.sess, db |-> k.db,
                   ret |-> [called |-> TRUE, chat |-> FALSE, result |-> k.result]]
             ELSE [sess |-> normal_chat(k.sess, k.db, fail, t, save), db |-> k.db,
                   ret |-> [called |-> TRUE, chat |-> TRUE, result |-> k.result]]
    ELSE [sess |-> normal_chat(sess, db, fail, t, save), db |-> db,
          ret |-> [called |-> FALSE, chat |-> TRUE,
                   result |-> Result(FALSE, "none", "none")]]

(***************************************************************************)
(* State.                                                                  *)
(***************************************************************************)
VARIABLES
    started,              \* conversations whose on_chat_start has run
    session,              \* cl.user_session of each conversation
    ret,                  \* what the last turn of each conversation returned
    users_collection,     \* authenticated_users
    sessions_collection,  \* user_sessions
    kyc_collection,       \* USERS_COLLECTION, the KYC collection
    next_oid,             \* next ObjectId of the store
    now,                  \* datetime.utcnow(), in hours
    out,                  \* what the last direct call of the auth service returned
    revoked,              \* tokens a logout_user call has matched
    issuing               \* where each server process is in register_user or generate_jwt_token

vars ==
    <<started, session, ret, users_collection, sessions_collection,
      kyc_collection, next_oid, now, out, revoked, issuing>>

NoCall == [op |-> "none"]

\* the server processes that share the store
Issuers == {"p1", "p2"}

\* a process that is not inside generate_jwt_token
NotIssuing == [pc |-> "idle", user |-> None, before |-> {}, old_sessions |-> {}]

NoReturn ==
    [called |-> FALSE, chat |-> FALSE, result |-> Result(FALSE, "none", "none")]

DB == [users |-> users_collection, sessions |-> sessions_collection,
       next_oid |-> next_oid]

\* The KYC collection is written by no code of the flow; it holds what
\* earlier deployments left in it.
Init ==
    /\ started = {}
    /\ session = [c \in Convs |-> FreshSession]
    /\ ret = [c \in Convs |-> NoReturn]
    /\ users_collection = {}
    /\ sessions_collection = {}
    /\ kyc_collection \in {{}, {[email |-> MsgEmail]}}
    /\ next_oid = 1
    /\ now = 0
    /\ out = NoCall
    /\ revoked = {}
    /\ issuing = [p \in Issuers |-> NotIssuing]

\* on_chat_start; the new session may already carry a jwt_token
OnChatStart(c) ==
    /\ c \notin started
    /\ \E jwt_token \in {None} \cup {s.token : s \in sessions_collection} :
          session' = [session EXCEPT ![c] =
              initialize_user_session([FreshSession EXCEPT !.jwt_token = jwt_token],
                                      DB, "none", now)]
    /\ started' = started \cup {c}
    /\ UNCHANGED <<ret, users_collection, sessions_collection, kyc_collection,
                   next_oid, now, out, revoked, issuing>>

\* The inputs a turn reads in the state it starts from.
LLMFor(sess) ==
    IF ~sess.is_authenticated /\ sess.kyc_step = 0
    THEN LLMOutcomes
    ELSE {[kind |-> "unavailable"]}

FailFor(sess) ==
    IF sess.is_authenticated
    THEN {"none", "verify.find_session", "verify.find_user"}
    ELSE IF sess.auth_mode = "register" /\ sess.kyc_step = 2
    THEN {"none", "email_exists.find_one"}
    ELSE IF sess.auth_mode = "register" /\ sess.kyc_step = 5
    THEN {"none", "register_user.find_one", "register_user.insert_one",
          "complete.find_one", "generate.find", "generate.insert_one"}
    ELSE IF sess.auth_mode = "login" /\ sess.kyc_step = 2
    THEN {"none", "authenticate.find_one", "authenticate.update_one",
          "generate.find", "generate.delete_many", "generate.insert_one"}
    ELSE {"none"}

SaveFor(sess) == IF sess.is_authenticated THEN BOOLEAN ELSE {FALSE}

\* what find_one of authenticate_user may return at login step 2
UserFor(sess) ==
    IF ~sess.is_authenticated /\ sess.auth_mode = "login" /\ sess.kyc_step = 2
    THEN LET found == authenticate_candidates(users_collection, sess.kyc_data["email"])
         IN  IF found = {} THEN {None} ELSE found
    ELSE {None}

OldSessionsFor(user) ==
    IF user = None THEN {{}}
    ELSE old_sessions_choices(sessions_collection, str(user._id))

\* what handle_message does with an input in the current state
Outcome(c, user_message, llm, fail, save, user, old_sessions) ==
    handle_message(session[c], user_message, llm, c, DB, kyc_collection, fail, now,
                   save, user, old_sessions)

HandleMessage(c, user_message, llm, fail, save) ==
    /\ c \in started
    /\ \E user \in UserFor(session[c]) : \E old_sessions \in OldSessionsFor(user) :
          \E r \in {Outcome(c, user_message, llm, fail, save, user, old_sessions)} :
              /\ r.db.next_oid <= MaxOid + 1
              /\ session' = [session EXCEPT ![c] = r.sess]
              /\ ret' = [ret EXCEPT ![c] = r.ret]
              /\ users_collection' = r.db.users
              /\ sessions_collection' = r.db.sessions
              /\ next_oid' = r.db.next_oid
    /\ UNCHANGED <<started, kyc_collection, now, out, revoked, issuing>>

Turn(c) ==
    \E user_message \in Messages :
        \E llm \in LLMFor(session[c]) :
            \E fail \in FailFor(session[c]) :
                \E save \in SaveFor(session[c]) :
                    HandleMessage(c, user_message, llm, fail, save)

Next ==
    \/ \E c \in Convs : OnChatStart(c)
    \/ \E c \in Convs : Turn(c)

Spec == Init /\ [][Next]_vars

(***************************************************************************)
(* The auth service called directly: register_user, authenticate_user,     *)
(* verify_token, logout_user and cleanup_expired_sessions against the      *)
(* store, while the clock advances.                                        *)
(***************************************************************************)
\* the clock is read every half expiry period, up to MaxTime
MaxTime == 36

TickHours == TOKEN_EXPIRY_HOURS \div 2

\* "a@b.c": the address of a second user
OtherEmail == <<"a", "@", "b", ".", "c">>

\* the kyc_data a completed registration flow hands to register_user
KycDataFor(email) ==
    SetItem(SetItem(SetItem(SetItem(SetItem(EmptyDict,
        "name", Computed[MsgName].stripped),
        "email", email),
        "mobile", Computed[MsgMobile].stripped),
        "faculty", Computed[MsgName].stripped),
        "password", Computed[MsgPassword].stripped)

KycRecords == {KycDataFor(MsgEmail)}

\* the passwords a caller tries: the right one and a wrong one
Passwords == {Computed[MsgPassword].stripped, Computed[MsgName].stripped}

\* the tokens a caller may hold: those of the stored records and the revoked
KnownTokens == {s.token : s \in sessions_collection} \cup revoked

\* the storage faults of each call
VerifyFaults == {"none", "verify.find_session", "verify.find_user"}

\* max_oid: the last ObjectId the store hands out in the specification
RegisterUser(kyc_data, fail, max_oid) ==
    \E r \in {register_user(kyc_data, "c1", DB, fail, now)} :
        /\ r.db.next_oid <= max_oid + 1
        /\ users_collection' = r.db.users
        /\ next_oid' = r.db.next_oid
        /\ out' = [op |-> "register_user", email |-> kyc_data["email"],
                   user_id |-> r.user_id]
        /\ UNCHANGED <<started, session, ret, sessions_collection, kyc_collection,
                       now, revoked, issuing>>

AuthenticateUser(username, password, fail, max_oid) ==
    \E user \in (LET found == authenticate_candidates(users_collection, username)
                 IN  IF found = {} THEN {None} ELSE found) :
    \E old_sessions \in OldSessionsFor(user) :
    \E a \in {authenticate_user(username, password, "c1", DB, fail, now,
                                user, old_sessions)} :
        /\ a.db.next_oid <= max_oid + 1
        /\ users_collection' = a.db.users
        /\ sessions_collection' = a.db.sessions
        /\ next_oid' = a.db.next_oid
        /\ out' = [op |-> "authenticate_user", token |-> a.token,
                   user_data |-> a.user_data]
        /\ UNCHANGED <<started, session, ret, kyc_collection, now, revoked, issuing>>

VerifyToken(token, fail) ==
    /\ out' = [op |-> "verify_token", token |-> token,
               user |-> verify_token(token, DB, fail, now)]
    /\ UNCHANGED <<started, session, ret, users_collection, sessions_collection,
                   kyc_collection, next_oid, now, revoked, issuing>>

LogoutUser(token, fail) ==
    \E doc \in (LET found == logout_candidates(sessions_collection, token)
                IN  IF found = {} THEN {None} ELSE found) :
    \E modified \in (IF doc # None /\ ~doc.is_active /\ doc.logout_at = now
                     THEN BOOLEAN ELSE {TRUE}) :
    \E r \in {logout_user(token, DB, fail, now, doc, modified)} :
        /\ sessions_collection' = r.db.sessions
        /\ revoked' = IF doc # None /\ fail = "none"
                      THEN revoked \cup {token} ELSE revoked
        /\ out' = [op |-> "logout_user", token |-> token, success |-> r.success]
        /\ UNCHANGED <<started, session, ret, users_collection, kyc_collection,
                       next_oid, now, issuing>>

CleanupExpiredSessions(fail) ==
    \E r \in {cleanup_expired_sessions(DB, fail, now)} :
        /\ sessions_collection' = r.db.sessions
        /\ out' = [op |-> "cleanup_expired_sessions",
                   deleted_count |-> r.deleted_count]
        /\ UNCHANGED <<started, session, ret, users_collection, kyc_collection,
                       next_oid, now, revoked, issuing>>

\* time passes between two calls
Tick ==
    /\ now + TickHours <= MaxTime
    /\ now' = now + TickHours
    /\ UNCHANGED <<started, session, ret, users_collection, sessions_collection,
                   kyc_collection, next_oid, out, revoked, issuing>>

AuthInit == Init /\ kyc_collection = {}

AuthNext ==
    \/ \E kyc_data \in KycRecords :
       \E fail \in {"none", "register_user.find_one", "register_user.insert_one"} :
           RegisterUser(kyc_data, fail, MaxOid)
    \/ \E kyc_data \in KycRecords : \E password \in Passwords :
       \E fail \in {"none", "authenticate.find_one", "authenticate.update_one",
                    "generate.find", "generate.insert_one"} :
           AuthenticateUser(kyc_data["email"], password, fail, MaxOid)
    \/ \E token \in KnownTokens : \E fail \in VerifyFaults : VerifyToken(token, fail)
    \/ \E token \in KnownTokens : \E fail \in {"none", "logout.update_one"} :
           LogoutUser(token, fail)
    \/ \E fail \in {"none", "cleanup.delete_many"} : CleanupExpiredSessions(fail)
    \/ Tick

AuthSpec == AuthInit /\ [][AuthNext]_vars

(***************************************************************************)
(* Session retention: two users who log in again and again.                *)
(***************************************************************************)
\* ObjectIds handed out while the retention of sessions is explored
MaxIssued == 7

RetentionUsers == {KycDataFor(MsgEmail), KycDataFor(OtherEmail)}

RetentionNext ==
    \/ \E kyc_data \in RetentionUsers : RegisterUser(kyc_data, "none", MaxIssued)
    \/ \E kyc_data \in RetentionUsers :
           AuthenticateUser(kyc_data["email"], kyc_data["password"], "none", MaxIssued)
    \/ \E token \in KnownTokens : LogoutUser(token, "none")

RetentionSpec == AuthInit /\ [][RetentionNext]_vars

(***************************************************************************)
(* One user who logs in again and again while the hours pass.              *)
(***************************************************************************)
\* the last hour of the clock
MaxHour == 5

HourTick ==
    /\ now + 1 <= MaxHour
    /\ now' = now + 1
    /\ UNCHANGED <<started, session, ret, users_collection, sessions_collection,
                   kyc_collection, next_oid, out, revoked, issuing>>

PruneNext ==
    \/ RegisterUser(KycDataFor(MsgEmail), "none", MaxIssued)
    \/ AuthenticateUser(MsgEmail, KycDataFor(MsgEmail)["password"], "none", MaxIssued)
    \/ HourTick

PruneSpec == AuthInit /\ [][PruneNext]_vars

(***************************************************************************)
(* Two server processes on one store issue tokens for one user; the store  *)
(* calls of generate_jwt_token interleave.                                 *)
(***************************************************************************)
\* process p builds session_doc and runs the pruning query
FindOld(p, user) ==
    /\ issuing[p].pc \in {"idle", "done"}
    /\ next_oid <= MaxIssued
    /\ \E old_sessions \in old_sessions_choices(sessions_collection, str(user._id)) :
          issuing' = [issuing EXCEPT ![p] =
              [pc |-> "found", user |-> user,
               before |-> {s \in sessions_collection : s.user_id = str(user._id)},
               old_sessions |-> old_sessions]]
    /\ UNCHANGED <<started, session, ret, users_collection, sessions_collection,
                   kyc_collection, next_oid, now, out, revoked>>

\* process p deletes what its query returned
DeleteOld(p) ==
    /\ issuing[p].pc = "found"
    /\ sessions_collection' =
           delete_old_sessions(DB, issuing[p].old_sessions).sessions
    /\ issuing' = [issuing EXCEPT ![p].pc = "pruned"]
    /\ UNCHANGED <<started, session, ret, users_collection, kyc_collection,
                   next_oid, now, out, revoked>>

\* process p inserts its record and returns the token
InsertNew(p) ==
    /\ issuing[p].pc = "pruned"
    /\ \E session_doc \in {new_session_doc(issuing[p].user, p, now)} :
       \E db \in {insert_session(DB, session_doc)} :
          /\ sessions_collection' = db.sessions
          /\ next_oid' = db.next_oid
          /\ out' = [op |-> "generate_jwt_token", token |-> session_doc.token]
    /\ issuing' = [issuing EXCEPT ![p].pc = "done"]
    /\ UNCHANGED <<started, session, ret, users_collection, kyc_collection,
                   now, revoked>>

RaceNext ==
    \/ RegisterUser(KycDataFor(MsgEmail), "none", MaxIssued)
    \/ \E p \in Issuers : \E user \in users_collection : FindOld(p, user)
    \/ \E p \in Issuers : DeleteOld(p)
    \/ \E p \in Issuers : InsertNew(p)

RaceSpec == AuthInit /\ [][RaceNext]_vars

(***************************************************************************)
(* Two server processes on one store register users; the store calls of    *)
(* register_user interleave.                                               *)
(***************************************************************************)
\* process p looks for a user with the email and returns None when there is
\* one
CheckExisting(p, kyc_data) ==
    /\ issuing[p].pc = "idle"
    /\ IF existing_user(DB, kyc_data) # {}
       THEN /\ out' = [op |-> "register_user", email |-> kyc_data["email"],
                       user_id |-> None]
            /\ UNCHANGED issuing
       ELSE /\ issuing' = [issuing EXCEPT ![p] =
                    [pc |-> "checked", kyc_data |-> kyc_data]]
            /\ UNCHANGED out
    /\ UNCHANGED <<started, session, ret, users_collection, sessions_collection,
                   kyc_collection, next_oid, now, revoked>>

\* process p inserts the user it found no record of
InsertUser(p) ==
    /\ issuing[p].pc = "checked"
    /\ next_oid <= MaxOid
    /\ \E db \in {insert_user(DB, new_user_doc(issuing[p].kyc_data, p, now))} :
          /\ users_collection' = db.users
          /\ next_oid' = db.next_oid
          /\ out' = [op |-> "register_user",
                     email |-> issuing[p].kyc_data["email"],
                     user_id |-> str(ObjectId(next_oid))]
    /\ issuing' = [issuing EXCEPT ![p] = NotIssuing]
    /\ UNCHANGED <<started, session, ret, sessions_collection, kyc_collection,
                   now, revoked>>

RegisterRaceNext ==
    \/ \E p \in Issuers : \E kyc_data \in RetentionUsers : CheckExisting(p, kyc_data)
    \/ \E p \in Issuers : InsertUser(p)

RegisterRaceSpec == AuthInit /\ [][RegisterRaceNext]_vars

(***************************************************************************)
(* The classifier called on its own, with every message and every outcome  *)
(* of the language model.                                                  *)
(***************************************************************************)
AllOutcomes ==
    {[kind |-> "unavailable"], [kind |-> "raises"]}
        \cup {[kind |-> "answer", content |-> a] : a \in AllAnswers}

DetectApplicationIntent(user_message, llm) ==
    /\ out' = [op |-> "detect_application_intent", user_message |-> user_message,
               llm |-> llm,
               intent |-> detect_application_intent(user_message, llm)]
    /\ UNCHANGED <<started, session, ret, users_collection, sessions_collection,
                   kyc_collection, next_oid, now, revoked, issuing>>

ClassifyNext ==
    \E user_message \in AllMessages : \E llm \in AllOutcomes :
        DetectApplicationIntent(user_message, llm)

ClassifySpec == AuthInit /\ [][ClassifyNext]_vars

(***************************************************************************)
(* One conversation whose role gates are consulted, over a store whose     *)
(* users an administrator may deactivate or give another role.             *)
(***************************************************************************)
\* the roles an administrator writes: a member of UserRole and a string that
\* is none
StoredRoles == {"admin", "superuser"}

\* what updateUser may set
UserPatches == {[is_active |-> FALSE]} \cup {[role |-> r] : r \in StoredRoles}

\* the Credential Store's updateUser(id, patch), called from outside the
\* program
UpdateUser(user, patch) ==
    /\ user \in users_collection
    /\ LET patched == [f \in DOMAIN user |->
                          IF f \in DOMAIN patch THEN patch[f] ELSE user[f]]
       IN  /\ patched # user
           /\ users_collection' = (users_collection \ {user}) \cup {patched}
    /\ out' = [op |-> "update_user", user_id |-> str(user._id)]
    /\ UNCHANGED <<started, session, ret, sessions_collection, kyc_collection,
                   next_oid, now, revoked, issuing>>

\* a gate of conversation c asks has_permission(required_role)
CheckPermission(c, required_role, fail) ==
    /\ c \in started
    /\ \E r \in {has_permission(session[c], required_role, DB, fail, now)} :
          /\ session' = [session EXCEPT ![c] = r.sess]
          /\ out' = [op |-> "has_permission", required_role |-> required_role,
                     ok |-> r.ok]
    /\ UNCHANGED <<started, ret, users_collection, sessions_collection,
                   kyc_collection, next_oid, now, revoked, issuing>>

\* a function of conversation c behind the guard called name is called
GuardedCall(c, name, func_raises, fail) ==
    /\ c \in started
    /\ \E r \in {guard(name, session[c], func_raises, DB, fail, "none", now)} :
          /\ session' = [session EXCEPT ![c] = r.sess]
          /\ out' = [op |-> "guarded_call", guard |-> name, runs |-> r.runs,
                     raised |-> r.raised, messages |-> r.messages]
    /\ UNCHANGED <<started, ret, users_collection, sessions_collection,
                   kyc_collection, next_oid, now, revoked, issuing>>

\* the turns of the login flow
LoginMessages == {MsgLogIn, MsgEmailRaw, MsgPassword, MsgName}

LoginTurn(c) ==
    \E user_message \in LoginMessages :
        \E llm \in LLMFor(session[c]) :
            \E fail \in FailFor(session[c]) :
                \E save \in SaveFor(session[c]) :
                    HandleMessage(c, user_message, llm, fail, save)

GateNext ==
    \/ OnChatStart("c1")
    \/ LoginTurn("c1")
    \/ \E kyc_data \in KycRecords : RegisterUser(kyc_data, "none", MaxOid)
    \/ \E user \in users_collection : \E patch \in UserPatches :
           UpdateUser(user, patch)
    \/ \E required_role \in UserRole : \E fail \in VerifyFaults :
           CheckPermission("c1", required_role, fail)
    \/ \E name \in Guards : \E func_raises \in BOOLEAN :
       \E fail \in VerifyFaults :
           GuardedCall("c1", name, func_raises, fail)

GateSpec == AuthInit /\ [][GateNext]_vars

(***************************************************************************)
(* Properties.  A property of a turn is stated of Outcome, the result of   *)
(* handle_message that HandleMessage installs, in every reachable state    *)
(* and for every input of the turn.                                        *)
(***************************************************************************)
KycState(sess) == <<sess.kyc_step, sess.auth_mode, sess.kyc_data>>

NoLLM == [kind |-> "unavailable"]

Idle(sess) == sess.kyc_step = 0 /\ sess.auth_mode = "none" /\ sess.kyc_data = EmptyDict

\* the address has a record in the credential store
Registered(email) ==
    \/ \E u \in users_collection : u.email = email \/ u.username = email
    \/ \E d \in kyc_collection : d.email = email

\* the next message of the registration scenario in the state sess
RegisterScenarioInput(sess, user_message, llm) ==
    \/ Idle(sess) /\ detect_application_intent(user_message, llm) = "register"
    \/ /\ sess.auth_mode = "register"
       /\ \/ sess.kyc_step = 1 /\ Computed[user_message].valid_name
          \/ /\ sess.kyc_step = 2
             /\ Computed[user_message].valid_email
             /\ ~Registered(Computed[user_message].stripped_lower)
          \/ sess.kyc_step = 3 /\ Computed[user_message].valid_mobile
          \/ sess.kyc_step = 4 /\ Computed[user_message].valid_faculty
          \/ sess.kyc_step = 5 /\ Computed[user_message].valid_password

\* C1: in a conversation that is not authenticated, each message of the
\* scenario [register intent, valid name, valid unregistered email, valid
\* mobile, valid faculty, valid password] is consumed and moves kyc_step by
\* exactly one, 0 -> 1 -> 2 -> 3 -> 4 -> 5 -> 0; through step 5 the mode is
\* register, and the last message leaves auth_mode none and kyc_data empty.
C1_RegisterScenarioSteps ==
    \A c \in started : ~session[c].is_authenticated =>
        \A user_message \in Messages :
        \A llm \in LLMFor(session[c]) : \A fail \in FailFor(session[c]) :
            RegisterScenarioInput(session[c], user_message, llm)
            => LET r == Outcome(c, user_message, llm, fail, FALSE, None, {})
               IN  /\ r.ret.result.is_kyc_flow
                   /\ r.sess.kyc_step = (session[c].kyc_step + 1) % 6
                   /\ IF session[c].kyc_step = 5
                      THEN Idle(r.sess)
                      ELSE r.sess.auth_mode = "register"

\* a conversation has walked the whole scenario and is back at step 0
C1_Witness ==
    \E c \in Convs :
        /\ ret[c].result.response_message = "registration_successful"
        /\ Idle(session[c])

\* C2: right after a registration that succeeded, the conversation has
\* is_authenticated = true and a non-null auth_token.
C2_RegistrationSetsAuthToken ==
    \A c \in Convs :
        ret[c].result.response_message = "registration_successful"
            => session[c].is_authenticated /\ session[c].auth_token # None

\* what C3 says of the outcome r of a turn that starts in sess at kyc_step = 0
IdleOutcome(sess, r, intent) ==
    IF intent = "register"
    THEN /\ r.sess.kyc_step = 1
         /\ r.sess.auth_mode = "register"
         /\ r.ret.result.is_kyc_flow
         /\ ~r.ret.chat
    ELSE IF intent = "login"
    THEN /\ r.sess.kyc_step = 1
         /\ r.sess.auth_mode = "login"
         /\ r.ret.result.is_kyc_flow
         /\ ~r.ret.chat
    ELSE /\ KycState(r.sess) = KycState(sess)
         /\ ~r.ret.result.is_kyc_flow
         /\ r.ret.chat

\* C3 as stated: at kyc_step = 0 every message is classified; register and
\* login start their flow and are consumed, none changes nothing and goes
\* to the normal chat.
C3_IdleClassifiesEveryMessage ==
    \A c \in started : session[c].kyc_step = 0 =>
        \A user_message \in Messages : \A llm \in LLMOutcomes :
        \A fail \in FailFor(session[c]) : \A save \in SaveFor(session[c]) :
            IdleOutcome(session[c],
                        Outcome(c, user_message, llm, fail, save, None, {}),
                        detect_application_intent(user_message, llm))

\* C3 (amended): the same, for a conversation that is not authenticated.
C3_UnauthenticatedIdleClassifies ==
    \A c \in started : (session[c].kyc_step = 0 /\ ~session[c].is_authenticated) =>
        \A user_message \in Messages : \A llm \in LLMOutcomes :
        \A fail \in FailFor(session[c]) : \A save \in SaveFor(session[c]) :
            IdleOutcome(session[c],
                        Outcome(c, user_message, llm, fail, save, None, {}),
                        detect_application_intent(user_message, llm))

\* an idle, unauthenticated conversation has just started the register flow
C3_Witness ==
    \E c \in Convs :
        /\ ret[c].called
        /\ ret[c].result.response_message = "ask_name"
        /\ session[c].kyc_step = 1
        /\ session[c].auth_mode = "register"
        /\ ~session[c].is_authenticated

\* the steps that validate their input, and the re-prompt of each
ValidatedStep(sess) ==
    \/ sess.auth_mode = "register" /\ sess.kyc_step \in 1..5
    \/ sess.auth_mode = "login" /\ sess.kyc_step = 1

FailsValidator(sess, user_message) ==
    IF sess.auth_mode = "register"
    THEN \/ sess.kyc_step = 1 /\ ~Computed[user_message].valid_name
         \/ sess.kyc_step = 2 /\ ~Computed[user_message].valid_email
         \/ sess.kyc_step = 3 /\ ~Computed[user_message].valid_mobile
         \/ sess.kyc_step = 4 /\ ~Computed[user_message].valid_faculty
         \/ sess.kyc_step = 5 /\ ~Computed[user_message].valid_password
    ELSE sess.kyc_step = 1 /\ ~Computed[user_message].valid_email

CorrectivePrompt(sess) ==
    IF sess.auth_mode = "register"
    THEN <<"invalid_name", "invalid_email", "invalid_mobile", "invalid_faculty",
           "invalid_password">>[sess.kyc_step]
    ELSE "invalid_email"

\* C4: at register steps 1-5 and login step 1, a message that fails the
\* validator of the step leaves kyc_step, auth_mode and kyc_data as they
\* were, is consumed, and is answered with the re-prompt of that field.
C4_InvalidInputChangesNothing ==
    \A c \in started :
        (~session[c].is_authenticated /\ ValidatedStep(session[c])) =>
        \A user_message \in Messages : \A fail \in FailFor(session[c]) :
            FailsValidator(session[c], user_message)
            => LET r == Outcome(c, user_message, NoLLM, fail, FALSE, None, {})
               IN  /\ KycState(r.sess) = KycState(session[c])
                   /\ r.ret.result.is_kyc_flow
                   /\ ~r.ret.chat
                   /\ r.ret.result.response_message = CorrectivePrompt(session[c])

\* a flow past its first field has just rejected a message
C4_Witness ==
    \E c \in Convs :
        /\ session[c].kyc_step > 1
        /\ session[c].kyc_data # EmptyDict
        /\ ret[c].result.response_message = CorrectivePrompt(session[c])

\* register step 2 of a conversation that is not authenticated
RegisterStep(sess, step) ==
    ~sess.is_authenticated /\ sess.auth_mode = "register" /\ sess.kyc_step = step

\* C5: at register step 2 a well-formed email that belongs to a registered
\* user is rejected: the state stays as it was and the reply suggests
\* logging in.
C5_RegisteredEmailRejected ==
    \A c \in started : RegisterStep(session[c], 2) =>
        \A user_message \in Messages :
            ( /\ Computed[user_message].valid_email
              /\ \E u \in users_collection :
                    u.email = Computed[user_message].stripped_lower )
            => LET r == Outcome(c, user_message, NoLLM, "none", FALSE, None, {})
               IN  /\ KycState(r.sess) = KycState(session[c])
                   /\ r.ret.result.response_message =
                          "email_already_registered_try_login"

\* C6: at register step 5 a valid password resets the flow to Idle in the
\* same turn, whatever register_user returns; when it returns no user id the
\* reply is the failure message, nothing is stored and nobody is logged in.
C6_RegistrationAlwaysResets ==
    \A c \in started : RegisterStep(session[c], 5) =>
        \A user_message \in Messages : \A fail \in FailFor(session[c]) :
            Computed[user_message].valid_password
            => LET r == Outcome(c, user_message, NoLLM, fail, FALSE, None, {})
                   data == SetItem(session[c].kyc_data, "password",
                                   Computed[user_message].stripped)
                   reg == register_user(data, c, DB, fail, now)
               IN  /\ Idle(r.sess)
                   /\ r.ret.result.is_kyc_flow
                   /\ r.ret.result.intent_type = "register_complete"
                   /\ reg.user_id = None
                        => /\ r.ret.result.response_message =
                                  "registration_failed_exists_or_invalid"
                           /\ ~r.sess.is_authenticated
                           /\ r.db = DB

\* a registration has failed and the conversation is idle again
C6_Witness ==
    \E c \in Convs :
        /\ ret[c].result.response_message = "registration_failed_exists_or_invalid"
        /\ Idle(session[c])
        /\ ~session[c].is_authenticated

\* login step 2 of a conversation that is not authenticated
LoginStep2(sess) ==
    ~sess.is_authenticated /\ sess.auth_mode = "login" /\ sess.kyc_step = 2

\* what authenticate_user returns for the password user_message, when its
\* queries returned user and old_sessions
Authenticate(c, user_message, fail, user, old_sessions) ==
    authenticate_user(session[c].kyc_data["email"], Computed[user_message].stripped,
                      c, DB, fail, now, user, old_sessions)

\* C7: at login step 2, when authenticate_user returns a token and a user,
\* the same turn sets is_authenticated, stores that user as
\* authenticated_user and that token as auth_token, neither of them null,
\* and resets the flow to kyc_step = 0, auth_mode = none, kyc_data = {}.
C7_LoginSuccessAuthenticatesAndResets ==
    \A c \in started : LoginStep2(session[c]) =>
        \A user_message \in Messages : \A fail \in FailFor(session[c]) :
        \A user \in UserFor(session[c]) : \A old_sessions \in OldSessionsFor(user) :
            LET a == Authenticate(c, user_message, fail, user, old_sessions)
                r == Outcome(c, user_message, NoLLM, fail, FALSE, user, old_sessions)
            IN  a.token # None
                => /\ r.sess.is_authenticated
                   /\ r.sess.authenticated_user # None
                   /\ r.sess.authenticated_user = a.user_data
                   /\ r.sess.auth_token # None
                   /\ r.sess.auth_token = a.token
                   /\ Idle(r.sess)
                   /\ r.ret.result.is_kyc_flow
                   /\ r.ret.result.response_message = "login_successful"

\* a conversation has just logged in
C7_Witness ==
    \E c \in Convs :
        /\ ret[c].result.intent_type = "login_complete"
        /\ session[c].is_authenticated
        /\ session[c].auth_token # None
        /\ session[c].kyc_step = 0

\* C8: at login step 2, when authenticate_user returns no token, kyc_step
\* becomes 1, kyc_data is cleared, auth_mode stays login and
\* is_authenticated stays false: the next message is read as the email.
C8_LoginFailureRestartsAtEmail ==
    \A c \in started : LoginStep2(session[c]) =>
        \A user_message \in Messages : \A fail \in FailFor(session[c]) :
        \A user \in UserFor(session[c]) : \A old_sessions \in OldSessionsFor(user) :
            LET a == Authenticate(c, user_message, fail, user, old_sessions)
                r == Outcome(c, user_message, NoLLM, fail, FALSE, user, old_sessions)
            IN  a.token = None
                => /\ r.sess.kyc_step = 1
                   /\ r.sess.kyc_data = EmptyDict
                   /\ r.sess.auth_mode = "login"
                   /\ ~r.sess.is_authenticated
                   /\ r.sess.auth_token = None
                   /\ r.ret.result.is_kyc_flow
                   /\ r.ret.result.response_message =
                          "login_failed_invalid_then_ask_email"
                   /\ LET next == handle_message(r.sess, MsgEmail, NoLLM, c, r.db,
                                                 kyc_collection, "none", now, FALSE,
                                                 None, {})
                      IN  /\ next.sess.kyc_step = 2
                          /\ next.sess.kyc_data = ("email" :> MsgEmail)

\* a login has just failed and the flow waits for the email again
C8_Witness ==
    \E c \in Convs :
        /\ ret[c].result.intent_type = "login_failed"
        /\ session[c].kyc_step = 1
        /\ session[c].auth_mode = "login"
        /\ session[c].kyc_data = EmptyDict

\* C9: between turns, in every conversation, kyc_step = 0 implies
\* auth_mode = none, and auth_mode = none implies kyc_data is empty.
C9_StepModeDataInvariant ==
    \A c \in Convs :
        /\ session[c].kyc_step = 0 => session[c].auth_mode = "none"
        /\ session[c].auth_mode = "none" => session[c].kyc_data = EmptyDict

\* one conversation has finished a flow that had collected data and is at
\* step 0 again, while the other is in the middle of a flow
C9_Witness ==
    \E c \in Convs : \E d \in Convs \ {c} :
        /\ ret[c].result.intent_type \in {"register_complete", "login_complete"}
        /\ session[c].kyc_step = 0
        /\ session[d].kyc_step > 1

\* a flow is active in the conversation
ActiveFlow(sess) == ~sess.is_authenticated /\ sess.kyc_step > 0

\* the message carries the intent of the flow that is not the active one
DifferentIntent(sess, user_message) ==
    /\ Computed[user_message].keyword_intent \in {"register", "login"}
    /\ Computed[user_message].keyword_intent # sess.auth_mode

\* C10 as stated: while a flow is active every message is consumed, and a
\* message that triggers a different intent ends the active flow instead of
\* being taken as field input.
C10_DifferentIntentEndsFlow ==
    \A c \in started : ActiveFlow(session[c]) =>
        \A user_message \in Messages : \A fail \in FailFor(session[c]) :
        \A user \in UserFor(session[c]) : \A old_sessions \in OldSessionsFor(user) :
            LET r == Outcome(c, user_message, NoLLM, fail, FALSE, user, old_sessions)
            IN  /\ r.ret.result.is_kyc_flow
                /\ DifferentIntent(session[c], user_message)
                     => r.sess.auth_mode # session[c].auth_mode

\* what the flow of the active mode does with the message as its field input
FieldInput(c, user_message, fail, user, old_sessions) ==
    IF session[c].auth_mode = "register"
    THEN handle_registration_flow(session[c], user_message, c, DB,
                                  kyc_collection, fail, now)
    ELSE handle_login_flow(session[c], user_message, c, DB, fail, now,
                           user, old_sessions)

\* C10 (amended): while a flow is active every message is consumed and is
\* taken as the input of the active step, whatever intent it carries; the
\* flow keeps its mode until a login succeeds or register step 5 receives a
\* valid password, and only then is the conversation idle again.
C10_FlowConsumesEveryMessage ==
    \A c \in started : ActiveFlow(session[c]) =>
        \A user_message \in Messages : \A fail \in FailFor(session[c]) :
        \A user \in UserFor(session[c]) : \A old_sessions \in OldSessionsFor(user) :
            LET r == Outcome(c, user_message, NoLLM, fail, FALSE, user, old_sessions)
                f == FieldInput(c, user_message, fail, user, old_sessions)
            IN  /\ r.ret.result.is_kyc_flow
                /\ ~r.ret.chat
                /\ r.sess = f.sess
                /\ r.ret.result = f.result
                /\ \/ /\ r.sess.auth_mode = session[c].auth_mode
                      /\ r.sess.kyc_step > 0
                   \/ /\ Idle(r.sess)
                      /\ \/ r.ret.result.intent_type = "login_complete"
                         \/ /\ r.ret.result.intent_type = "register_complete"
                            /\ session[c].kyc_step = 5
                            /\ Computed[user_message].valid_password

\* a message with the login intent was read as the name of a registration
C10_Witness ==
    \E c \in Convs :
        /\ session[c].auth_mode = "register"
        /\ session[c].kyc_step = 1
        /\ ret[c].result.response_message = "invalid_name"

\* the view verify_token returns for the token, without storage faults
Verified(token) == verify_token(token, DB, "none", now)

\* C11: the token authenticate_user has just returned is verified, at once,
\* as a view with the user_id, email and role of the user it was issued to.
C11_TokenRoundTrip ==
    (out.op = "authenticate_user" /\ out.token # None)
        => /\ Verified(out.token) # None
           /\ Verified(out.token).user_id = out.user_data.user_id
           /\ Verified(out.token).email = out.user_data.email
           /\ Verified(out.token).role = out.user_data.role

\* C12: for kyc_data whose email already has a user, register_user returns
\* no id and leaves the store as it is, and exactly one user has that email.
C12_SecondRegistrationRejected ==
    \A kyc_data \in KycRecords :
        (\E u \in users_collection : u.email = kyc_data["email"])
            => /\ \A fail \in {"none", "register_user.find_one",
                               "register_user.insert_one"} :
                      register_user(kyc_data, "c1", DB, fail, now) =
                          [user_id |-> None, db |-> DB]
               /\ Cardinality({u \in users_collection :
                                   u.email = kyc_data["email"]}) = 1

\* register_user was called for an email that has a user and returned no id
C12_Witness ==
    /\ out.op = "register_user"
    /\ out.user_id = None
    /\ \E u \in users_collection : u.email = out.email

\* C15: a record logout_user has stamped stays inactive, and verify_token
\* returns None for every token a logout has matched, in every later state
\* and under every storage fault.
C15_RevokedTokenStaysInvalid ==
    /\ \A s \in sessions_collection : s.logout_at # NoTime => ~s.is_active
    /\ \A token \in revoked : \A fail \in VerifyFaults :
           verify_token(token, DB, fail, now) = None

\* verify_token was called for a logged-out token whose record is still
\* stored and has not expired
C15_Witness ==
    /\ out.op = "verify_token"
    /\ out.token \in revoked
    /\ out.user = None
    /\ out.token.jwt.exp > now
    /\ \E s \in sessions_collection : s.token = out.token /\ ~s.is_active

\* C16: a stored, active token of an active user is verified at every time
\* before its expiry and rejected from the instant of its expiry on.
C16_ValidStrictlyBeforeExpiry ==
    \A s \in sessions_collection :
        ( /\ s.is_active
          /\ \A d \in sessions_collection : d.token = s.token => d.is_active
          /\ \E u \in users_collection : str(u._id) = s.user_id /\ u.is_active )
        => /\ now < s.expires_at => Verified(s.token) # None
           /\ now >= s.expires_at => Verified(s.token) = None

\* the session records stored for the user
SessionsOf(sessions, user) == {s \in sessions : s.user_id = str(user._id)}

\* C13: a token issuance for a user leaves the new record and the 4 most
\* recent earlier ones: with fewer than 4 earlier records it adds one, from
\* 4 earlier records on exactly 5 remain, never more.
C13_IssuanceKeepsFourOlder ==
    \A user \in users_collection :
    \A old_sessions \in old_sessions_choices(sessions_collection, str(user._id)) :
        LET before == SessionsOf(sessions_collection, user)
            g == generate_jwt_token(user, "c1", DB, "none", now, old_sessions)
            after == SessionsOf(g.db.sessions, user)
        IN  /\ g.token # None
            /\ Cardinality(after) <= 5
            /\ Cardinality(after) =
                   (IF Cardinality(before) < 4 THEN Cardinality(before) ELSE 4) + 1
            /\ \E new \in after \ before : new.token = g.token
            /\ \A kept \in after \cap before : \A gone \in before \ after :
                   gone.created_at <= kept.created_at
            /\ \A other \in users_collection \ {user} :
                   SessionsOf(g.db.sessions, other) =
                       SessionsOf(sessions_collection, other)

\* a user who had 5 records has logged in again and has 5 records
C13_Witness ==
    /\ out.op = "authenticate_user"
    /\ out.token # None
    /\ next_oid >= 8
    /\ \E u \in users_collection :
          /\ str(u._id) = out.user_data.user_id
          /\ Cardinality(SessionsOf(sessions_collection, u)) = 5

FoundFor(username) ==
    LET found == authenticate_candidates(users_collection, username)
    IN  IF found = {} THEN {None} ELSE found

\* C17: for a user whose is_active is false, verify_token returns None for
\* each of the user's tokens, a stored, active and unexpired one too, and
\* authenticate_user returns no token and no user for the user's email with
\* any password, the right one included, and changes nothing in the store.
C17_DeactivatedUserRejected ==
    \A u \in users_collection : ~u.is_active =>
        /\ \A s \in sessions_collection : s.user_id = str(u._id) =>
               \A fail \in VerifyFaults : verify_token(s.token, DB, fail, now) = None
        /\ \A password \in Passwords :
           \A user \in FoundFor(u.email) : \A old_sessions \in OldSessionsFor(user) :
               LET a == authenticate_user(u.email, password, "c1", DB, "none", now,
                                          user, old_sessions)
               IN  /\ a.token = None
                   /\ a.user_data = None
                   /\ a.db = DB

\* a deactivated user who knows the password and holds an active, unexpired
\* session record has just been refused a login
C17_Witness ==
    /\ \E u \in users_collection :
          /\ ~u.is_active
          /\ \E password \in Passwords : verify_password(password, u.password_hash)
          /\ \E s \in sessions_collection :
                s.user_id = str(u._id) /\ s.is_active /\ s.expires_at > now
    /\ ret["c1"].result.intent_type = "login_failed"

\* C18: at login step 2, a password that does not verify against the active
\* user found and a lookup that finds no active user end alike:
\* authenticate_user returns the same value (no token, no user, the store
\* untouched), and the turn returns the same message and leaves the same
\* session.
C18_LoginFailuresIndistinguishable ==
    \A c \in started : LoginStep2(session[c]) =>
        \A user_message \in Messages : \A user \in UserFor(session[c]) \ {None} :
            ~verify_password(Computed[user_message].stripped, user.password_hash) =>
                \A old_sessions \in OldSessionsFor(user) :
                    LET wrong == Authenticate(c, user_message, "none", user, old_sessions)
                        absent == Authenticate(c, user_message, "none", None, {})
                        r_wrong == Outcome(c, user_message, NoLLM, "none", FALSE,
                                           user, old_sessions)
                        r_absent == Outcome(c, user_message, NoLLM, "none", FALSE,
                                            None, {})
                    IN  /\ wrong.token = None /\ wrong.user_data = None
                        /\ wrong = absent
                        /\ r_wrong.ret = r_absent.ret
                        /\ r_wrong.sess = r_absent.sess
                        /\ r_wrong.db = DB /\ r_absent.db = DB
                        /\ r_wrong.ret.result.response_message =
                               "login_failed_invalid_then_ask_email"

\* a login has just failed while an active user is registered
C18_Witness ==
    /\ \E c \in Convs :
          /\ ret[c].result.response_message = "login_failed_invalid_then_ask_email"
          /\ ~session[c].is_authenticated
          /\ session[c].auth_token = None
    /\ \E u \in users_collection : u.is_active /\ u.email = MsgEmail


\* the role the session's authenticated user carries: that of
\* authenticated_user when the session is authenticated, else guest; a role
\* string outside UserRole counts as user
CurrentRole(sess) ==
    IF sess.is_authenticated /\ sess.authenticated_user # None
    THEN IF sess.authenticated_user.role \in UserRole
         THEN sess.authenticated_user.role
         ELSE "user"
    ELSE "guest"

\* C19: has_permission(required) holds exactly when the order of the current
\* role, guest(0) < user(1) < premium_user(2) < admin(3), is at least the
\* order of the required role, the current role being the authenticated
\* user's role, or guest without one.
C19_PermissionFollowsRoleOrder ==
    \A c \in started : \A required_role \in UserRole :
        has_permission(session[c], required_role, DB, "none", now).ok
            <=> role_hierarchy[CurrentRole(session[c])] >= role_hierarchy[required_role]

\* C20: an authenticated user whose stored role is no member of UserRole has
\* the role user: has_permission holds for user and holds neither for
\* premium_user nor for admin.
C20_UnrecognizedRoleIsUser ==
    \A c \in started :
        (/\ session[c].is_authenticated
         /\ session[c].authenticated_user # None
         /\ session[c].authenticated_user.role \notin UserRole)
            => /\ get_user_role(session[c], DB, "none", now).role = "user"
               /\ has_permission(session[c], "user", DB, "none", now).ok
               /\ ~has_permission(session[c], "premium_user", DB, "none", now).ok
               /\ ~has_permission(session[c], "admin", DB, "none", now).ok


\* whether the guard called name is satisfied in session sess
Satisfied(name, sess, fail) ==
    IF name = "auth"
    THEN is_authenticated(sess, DB, fail, now).ok
    ELSE has_permission(sess, name, DB, fail, now).ok

\* C21: a guard that is not satisfied does not run the guarded function,
\* sends a denial message and raises nothing to the caller; a guard that is
\* satisfied sends nothing and runs the function exactly once.
C21_GuardDeniesOrRunsOnce ==
    \A c \in started : \A name \in Guards : \A func_raises \in BOOLEAN :
    \A fail \in VerifyFaults : \A fail2 \in VerifyFaults :
        LET r == guard(name, session[c], func_raises, DB, fail, fail2, now)
        IN  IF Satisfied(name, session[c], fail)
            THEN r.runs = 1 /\ r.messages = <<>>
            ELSE r.runs = 0 /\ Len(r.messages) >= 1 /\ ~r.raised

\* the admin guard has just refused a call and said so
C21_Witness ==
    /\ out.op = "guarded_call"
    /\ out.guard = "admin"
    /\ out.runs = 0
    /\ ~out.raised
    /\ out.messages = <<[requires |-> "admin", have |-> "guest"]>>


\* a keyword of the list occurs in the lowercased message
HasKeyword(user_message, keywords) ==
    \E k \in 1..Len(keywords) : contains(lower(user_message), keywords[k])

\* the classifier has been called and the language model was missing or raised
FellBack == out.op = "detect_application_intent" /\ out.llm.kind # "answer"

\* the classifier has been called and the language model answered
Answered == out.op = "detect_application_intent" /\ out.llm.kind = "answer"

\* the answer, trimmed and uppercased
Normalized(answer) == upper(strip(answer))

\* C22: when the language model is missing or raises, the intent is login
\* for a message with a login keyword, with or without a register keyword,
\* register for one with a register keyword and no login keyword, none
\* otherwise; "I want to login" gives login.
C22_FallbackIsKeywordMatch ==
    FellBack =>
        /\ out.intent =
               IF HasKeyword(out.user_message, login_keywords) THEN "login"
               ELSE IF HasKeyword(out.user_message, register_keywords) THEN "register"
               ELSE "none"
        /\ out.user_message = MsgWantLogin => out.intent = "login"

\* the model raised on a message with a register and a login keyword
C22_Witness ==
    /\ FellBack
    /\ out.llm.kind = "raises"
    /\ out.user_message = MsgRegisterOrLogin
    /\ HasKeyword(out.user_message, register_keywords)
    /\ out.intent = "login"

\* C23: when the language model answers, the intent is register for the
\* answer REGISTER, login for LOGIN and none for every other answer, the
\* empty one too, after trimming and uppercasing, whatever the message.
C23_AnswerAloneDecides ==
    Answered =>
        out.intent =
            IF Normalized(out.llm.content) = <<"R", "E", "G", "I", "S", "T", "E", "R">> THEN "register"
            ELSE IF Normalized(out.llm.content) = <<"L", "O", "G", "I", "N">> THEN "login"
            ELSE "none"

\* the answer " login\n" made a sign-up message a login
C23_Witness ==
    /\ Answered
    /\ out.llm.content = <<" ", "l", "o", "g", "i", "n", "\n">>
    /\ out.user_message = MsgSignUp
    /\ out.intent = "login"

\* an answer that is none of REGISTER, LOGIN, NONE
Unparseable(answer) ==
    Normalized(answer) \notin {<<"R", "E", "G", "I", "S", "T", "E", "R">>, <<"L", "O", "G", "I", "N">>, <<"N", "O", "N", "E">>}

\* C24 as stated: an answer that is none of REGISTER, LOGIN, NONE gives the
\* intent of the keyword fallback, as an exception does.
C24_UnparseableAnswerFallsBack ==
    (Answered /\ Unparseable(out.llm.content)) =>
        out.intent = check_application_intent(out.user_message)

\* C24: an answer that is none of REGISTER, LOGIN, NONE, the empty one too,
\* gives none without the keyword fallback, also for a message with a login
\* keyword; a missing model and an exception give the keyword fallback.
C24_UnparseableAnswerIsNone ==
    /\ (Answered /\ Unparseable(out.llm.content)) => out.intent = "none"
    /\ FellBack => out.intent = check_application_intent(out.user_message)

\* the empty answer left "I want to login" unclassified
C24_Witness ==
    /\ Answered
    /\ out.llm.content = <<>>
    /\ out.user_message = MsgWantLogin
    /\ out.intent = "none"


\* the outcomes of the language model that are failures
LLMFailures == {[kind |-> "unavailable"], [kind |-> "raises"]}

\* the message after the turn that left r is handled too
NextMessageHandled(c, r) ==
    LET next == handle_message(r.sess, MsgLogIn, NoLLM, c, r.db, kyc_collection,
                               "none", now, FALSE, None, {})
    IN  next.ret.called \/ next.ret.chat

\* C25: a storage call or a language-model call that raises inside a public
\* operation does not reach the caller.  register_user returns None,
\* authenticate_user and generate_jwt_token no token, verify_token None,
\* logout_user False, cleanup_expired_sessions 0, get_current_user None;
\* handle_kyc returns a result, a consumed message inside a flow, and the
\* conversation handles the next message.
C25_FailuresAreReturned ==
    /\ \A kyc_data \in KycRecords :
       \A fail \in {"register_user.find_one", "register_user.insert_one"} :
           register_user(kyc_data, "c1", DB, fail, now) = [user_id |-> None, db |-> DB]
    /\ \A user \in users_collection :
       \A old_sessions \in OldSessionsFor(user) :
           /\ \A password \in Passwords :
              \A fail \in {"authenticate.find_one", "authenticate.update_one"} :
                  authenticate_user(user.email, password, "c1", DB, fail, now,
                                    user, old_sessions)
                      = [token |-> None, user_data |-> None, db |-> DB]
           /\ \A password \in Passwords :
              \A fail \in {"generate.find", "generate.insert_one"} :
                  authenticate_user(user.email, password, "c1", DB, fail, now,
                                    user, old_sessions).token = None
           /\ \A fail \in {"generate.find", "generate.insert_one"} :
                  generate_jwt_token(user, "c1", DB, fail, now, old_sessions).token
                      = None
    /\ \A s \in sessions_collection :
           /\ \A fail \in {"verify.find_session", "verify.find_user"} :
                  verify_token(s.token, DB, fail, now) = None
           /\ logout_user(s.token, DB, "logout.update_one", now, s, TRUE)
                  = [success |-> FALSE, db |-> DB]
    /\ cleanup_expired_sessions(DB, "cleanup.delete_many", now)
           = [deleted_count |-> 0, db |-> DB]
    /\ \A c \in started :
           /\ session[c].auth_token # None =>
                  \A fail \in {"verify.find_session", "verify.find_user"} :
                      get_current_user(session[c], DB, fail, now).user = None
           /\ ~session[c].is_authenticated =>
                  \A user_message \in Messages :
                  \A fail \in FailFor(session[c]) :
                  \A llm \in (IF Idle(session[c]) THEN LLMFailures ELSE {NoLLM}) :
                  \A user \in UserFor(session[c]) :
                  \A old_sessions \in OldSessionsFor(user) :
                      LET r == Outcome(c, user_message, llm, fail, FALSE,
                                       user, old_sessions)
                      IN  /\ r.ret.called
                          /\ ActiveFlow(session[c]) => r.ret.result.is_kyc_flow
                          /\ Idle(session[c]) =>
                                 r.ret.result.intent_type
                                     = Computed[user_message].keyword_intent
                          /\ r.sess.kyc_step \in 0..5
                          /\ NextMessageHandled(c, r)

\* a registration has just failed on the storage call that reads the new
\* user back
C25_Witness ==
    \E c \in Convs :
        /\ ret[c].result.intent_type = "register_complete"
        /\ ret[c].result.response_message = "registration_failed_technical"
        /\ ~session[c].is_authenticated


\* C26: while the reply of a conversation's last turn is a successful
\* registration or a successful login, is_authenticated() is true and
\* has_permission(USER) holds in that conversation (no token expires, is
\* logged out or pruned and no user is deactivated in this specification).
C26_AuthenticatedAfterSuccess ==
    \A c \in Convs :
        ret[c].result.response_message
                \in {"registration_successful", "login_successful"}
            => /\ is_authenticated(session[c], DB, "none", now).ok
               /\ has_permission(session[c], "user", DB, "none", now).ok


\* the claim's rule for every message: the trimmed text has 8 characters or
\* more, and there are a letter and a digit
PasswordRule ==
    [m \in AllMessages |->
        /\ Len(strip(m)) >= 8
        /\ {i \in 1..Len(m) : isalpha(m[i])} # {}
        /\ {i \in 1..Len(m) : isdigit(m[i])} # {}]

\* C27: is_valid_password accepts exactly the texts of the rule, "abcdefgh"
\* and "short1" are refused, and register step 5 goes on to the registration
\* for an accepted text and asks again, changing nothing, for a refused one.
C27_PasswordRuleGatesRegistration ==
    /\ \A m \in AllMessages : Computed[m].valid_password <=> PasswordRule[m]
    /\ ~Computed[MsgLettersOnly].valid_password
    /\ ~Computed[MsgShort].valid_password
    /\ \A c \in started : RegisterStep(session[c], 5) =>
           \A user_message \in AllMessages : \A fail \in FailFor(session[c]) :
               LET r == Outcome(c, user_message, NoLLM, fail, FALSE, None, {})
               IN  IF PasswordRule[user_message]
                   THEN /\ r.ret.result.intent_type = "register_complete"
                        /\ r.sess.kyc_step = 0
                   ELSE /\ r.ret.result.intent_type = "register"
                        /\ r.ret.result.response_message = "invalid_password"
                        /\ r.sess = session[c]
                        /\ r.db = DB

\* a conversation at register step 5 has just been asked for another password
C27_Witness ==
    \E c \in Convs :
        /\ RegisterStep(session[c], 5)
        /\ ret[c].result.response_message = "invalid_password"


\* the fields of a registration in the order they are asked for
FieldOrder == <<"name", "email", "mobile", "faculty", "password">>

\* C28: between turns, a conversation in register mode at step k, with
\* 1 <= k <= 5, holds exactly the first k - 1 fields of name, email, mobile,
\* faculty, password in kyc_data; one in login mode is at step 1 with no
\* field or at step 2 with the email alone; kyc_step is always in 0..5.
C28_FieldsFollowTheStep ==
    \A c \in Convs :
        /\ session[c].kyc_step \in 0..5
        /\ session[c].auth_mode = "register" =>
               /\ session[c].kyc_step \in 1..5
               /\ DOMAIN session[c].kyc_data
                      = {FieldOrder[i] : i \in 1..(session[c].kyc_step - 1)}
        /\ session[c].auth_mode = "login" =>
               /\ session[c].kyc_step \in 1..2
               /\ DOMAIN session[c].kyc_data
                      = IF session[c].kyc_step = 1 THEN {} ELSE {"email"}

\* a registration waits for the password with the four other fields stored
C28_Witness ==
    \E c \in Convs :
        /\ session[c].auth_mode = "register"
        /\ session[c].kyc_step = 5
        /\ DOMAIN session[c].kyc_data = {"name", "email", "mobile", "faculty"}
        /\ session[c].kyc_data["email"] = MsgEmail


\* the records of the user that were created after record s
LaterThan(sessions, s) ==
    {k \in sessions : k.user_id = s.user_id /\ k.created_at > s.created_at}

\* C29: a token issuance deletes only the oldest records of the user: no
\* record goes while an older record of the user stays, the records deleted
\* are those the pruning query returned, and a record with four later
\* records of the user is gone after the next issuance, the fifth later one,
\* and its token is verified as None from then on.
C29_PruningDeletesOldest ==
    \A user \in users_collection :
    \A old_sessions \in old_sessions_choices(sessions_collection, str(user._id)) :
        LET before == SessionsOf(sessions_collection, user)
            g == generate_jwt_token(user, "c1", DB, "none", now, old_sessions)
            after == SessionsOf(g.db.sessions, user)
        IN  /\ before \ after = old_sessions
            /\ \A gone \in before \ after : \A kept \in after :
                   gone.created_at <= kept.created_at
            /\ \A s \in before :
                   Cardinality(LaterThan(before, s)) >= 4
                       => /\ s \notin g.db.sessions
                          /\ \A k \in g.db.sessions : k.token # s.token
                          /\ \A fail \in VerifyFaults :
                                 verify_token(s.token, g.db, fail, now) = None

\* the user has logged in a sixth time, has 5 records created at 5 different
\* hours, and the first record is gone
C29_Witness ==
    /\ out.op = "authenticate_user"
    /\ out.token # None
    /\ next_oid >= 8
    /\ \E u \in users_collection :
          /\ Cardinality(SessionsOf(sessions_collection, u)) = 5
          /\ Cardinality({s.created_at : s \in SessionsOf(sessions_collection, u)}) = 5
          /\ \A s \in SessionsOf(sessions_collection, u) : s.created_at >= 1
          /\ u.created_at = 0


\* both processes have returned from an issuance for user whose pruning
\* queries read the same records and returned the same ones: neither saw
\* the other's insert
BothPrunedFirst(user) ==
    /\ \A p \in Issuers : issuing[p].pc = "done" /\ issuing[p].user = user
    /\ issuing["p1"].before = issuing["p2"].before
    /\ issuing["p1"].old_sessions = issuing["p2"].old_sessions

\* C30: when two issuances for a user who holds 4 records or more both
\* prune before either inserts, the user is left with both new records
\* and the 4 kept ones, 6 records, more than the bound of 5 that sequential
\* issuances keep.
C30_InterleavedIssuancesExceedBound ==
    \A user \in users_collection :
        (BothPrunedFirst(user) /\ Cardinality(issuing["p1"].before) >= 4)
            => /\ Cardinality(SessionsOf(sessions_collection, user)) = 6
               /\ Cardinality(SessionsOf(sessions_collection, user)) > 5

\* two issuances that both read the user's 5 records have left 6
C30_Witness ==
    \E user \in users_collection :
        /\ BothPrunedFirst(user)
        /\ Cardinality(issuing["p1"].before) = 5
        /\ Cardinality(issuing["p1"].old_sessions) = 1
        /\ Cardinality(SessionsOf(sessions_collection, user)) = 6


\* C31: no two active user records share an email or a username, in every
\* state of the user store, also when the existence checks and the inserts
\* of two registrations with one email interleave.
C31_ActiveEmailsUnique ==
    \A u1 \in users_collection : \A u2 \in users_collection :
        (/\ u1.is_active /\ u2.is_active
         /\ u1.email = u2.email \/ u1.username = u2.username)
            => u1 = u2


\* the authentication fields of a session
AuthState(sess) == <<sess.is_authenticated, sess.authenticated_user, sess.auth_token>>

\* a store without a record
EmptyStore == [users |-> {}, sessions |-> {}, next_oid |-> 1]

\* the session holds a token the checks will verify
HoldsToken(sess) ==
    sess.is_authenticated /\ sess.authenticated_user # None /\ sess.auth_token # None

\* C32 as stated: is_authenticated, get_user_role and has_permission leave
\* is_authenticated, authenticated_user and auth_token as they were and
\* answer the same whatever the store holds.
C32_ChecksReadOnlySession ==
    \A c \in started : \A required_role \in UserRole :
        /\ AuthState(is_authenticated(session[c], DB, "none", now).sess)
               = AuthState(session[c])
        /\ AuthState(get_user_role(session[c], DB, "none", now).sess)
               = AuthState(session[c])
        /\ AuthState(has_permission(session[c], required_role, DB, "none", now).sess)
               = AuthState(session[c])
        /\ has_permission(session[c], required_role, EmptyStore, "none", now)
               = has_permission(session[c], required_role, DB, "none", now)

\* the session the checks leave behind: with a token to verify, the session
\* with the verified view, or the cleared session when verify_token rejects
\* the token; without one, the session as it was
AfterCheck(sess, fail) ==
    IF HoldsToken(sess)
    THEN LET verified_user == verify_token(sess.auth_token, DB, fail, now)
         IN  IF verified_user # None
             THEN [sess EXCEPT !.authenticated_user = verified_user]
             ELSE clear_auth_session(sess)
    ELSE sess

\* C32: the checks go through get_current_user.  For a session that is
\* authenticated with a user and a token they have the token verified
\* against the store and leave the session with the verified view, or with
\* is_authenticated false and authenticated_user and auth_token None when
\* the token is rejected; for every other session they read the session
\* alone and leave it unchanged.  kyc_step, auth_mode and kyc_data stay.
C32_ChecksVerifyStoredToken ==
    \A c \in started : \A required_role \in UserRole : \A fail \in VerifyFaults :
        LET a == is_authenticated(session[c], DB, fail, now)
            g == get_user_role(session[c], DB, fail, now)
            h == has_permission(session[c], required_role, DB, fail, now)
        IN  /\ a.sess = AfterCheck(session[c], fail)
            /\ g.sess = AfterCheck(session[c], fail)
            /\ h.sess = AfterCheck(session[c], fail)
            /\ KycState(h.sess) = KycState(session[c])
            /\ ~HoldsToken(session[c]) =>
                   /\ h.sess = session[c]
                   /\ has_permission(session[c], required_role, EmptyStore, fail, now) = h
                   /\ get_user_role(session[c], EmptyStore, fail, now) = g
                   /\ is_authenticated(session[c], EmptyStore, fail, now) = a

\* a permission check has just ended the session of a conversation that had
\* logged in
C32_Witness ==
    /\ out.op = "has_permission"
    /\ ret["c1"].result.response_message = "login_successful"
    /\ AuthState(session["c1"]) = <<FALSE, None, None>>


\* the calls of authenticate_user the store allows in this state
AuthenticateCalls ==
    UNION {UNION {UNION {UNION {
        {authenticate_user(kyc_data["email"], password, "c1", DB, fail, now,
                           user, old_sessions) :
            old_sessions \in OldSessionsFor(user)} :
        user \in (LET found == authenticate_candidates(users_collection, kyc_data["email"])
                  IN  IF found = {} THEN {None} ELSE found)} :
        fail \in {"none", "authenticate.find_one", "authenticate.update_one",
                  "generate.find", "generate.delete_many", "generate.insert_one"}} :
        password \in Passwords} :
        kyc_data \in KycRecords}

\* C33: authenticate changes the store only when it succeeds: a call that
\* delivers no token leaves every user record and every session record
\* unchanged; a call that delivers a token has set that user's last_login
\* and added exactly one session record, the one of the returned token.
C33_StoreChangesOnlyOnSuccess ==
    \A a \in AuthenticateCalls :
        IF a.token = None
        THEN a.db.users = users_collection /\ a.db.sessions = sessions_collection
        ELSE /\ \E user \in users_collection :
                   /\ str(user._id) = a.user_data.user_id
                   /\ a.db.users = (users_collection \ {user})
                                      \cup {[user EXCEPT !.last_login = now]}
             /\ \E doc \in a.db.sessions \ sessions_collection :
                   /\ a.db.sessions \ sessions_collection = {doc}
                   /\ doc.token = a.token


\* the stored tokens verify_token is to accept: active, unexpired session
\* records of active users
LiveTokens ==
    {s.token : s \in {d \in sessions_collection :
        /\ d.is_active
        /\ now < d.expires_at
        /\ \A e \in sessions_collection : e.token = d.token => e.is_active
        /\ \E u \in users_collection : str(u._id) = d.user_id /\ u.is_active}}

\* C34: at conversation start initialize_user_session leaves the session
\* authenticated, with the token kept, when the session holds a JWT token of
\* an active, unexpired session record of an active user, and leaves it
\* unauthenticated with jwt_token None when the token is absent or invalid.
C34_ValidTokenRestoresSession ==
    \A jwt_token \in {None} \cup {s.token : s \in sessions_collection} :
        LET sess == initialize_user_session([FreshSession EXCEPT !.jwt_token = jwt_token],
                                            DB, "none", now)
        IN  IF jwt_token \in LiveTokens
            THEN sess.is_authenticated /\ sess.jwt_token = jwt_token
            ELSE ~sess.is_authenticated /\ sess.jwt_token = None


\* C35: for an authenticated session with a user and a token, when
\* verify_token rejects the token get_current_user returns no user and the
\* same call leaves auth_token and authenticated_user None and
\* is_authenticated false, with kyc_step, auth_mode and kyc_data as they
\* were; when the token is verified it returns the verified view, stores it
\* as authenticated_user and is_authenticated stays true.
C35_RejectedTokenClearsAuthState ==
    \A c \in started : \A fail \in VerifyFaults :
        HoldsToken(session[c]) =>
            LET verified_user == verify_token(session[c].auth_token, DB, fail, now)
                g == get_current_user(session[c], DB, fail, now)
            IN  /\ KycState(g.sess) = KycState(session[c])
                /\ g.sess.jwt_token = session[c].jwt_token
                /\ IF verified_user = None
                   THEN /\ g.user = None
                        /\ AuthState(g.sess) = <<FALSE, None, None>>
                   ELSE /\ g.user = verified_user
                        /\ AuthState(g.sess)
                               = <<TRUE, verified_user, session[c].auth_token>>

\* a guarded call has just found the token of a logged-in conversation
\* rejected and left the session cleared
C35_Witness ==
    /\ out.op = "guarded_call"
    /\ out.guard = "auth"
    /\ out.runs = 0
    /\ ret["c1"].result.response_message = "login_successful"
    /\ AuthState(session["c1"]) = <<FALSE, None, None>>


\* C36: in every state a session whose is_authenticated is true holds an
\* authenticated_user and an auth_token.
C36_AuthenticatedHasUserAndToken ==
    \A c \in Convs :
        session[c].is_authenticated
            => session[c].authenticated_user # None /\ session[c].auth_token # None


\* the turn called register_user: it ends as register step 5 ends after
\* complete_user_registration, or it has stored a user record
Registers(r) ==
    \/ r.ret.result.intent_type = "register_complete"
    \/ \E u \in r.db.users : \A v \in users_collection : v._id # u._id

\* the turn called authenticate_user: it ends as login step 2 ends after
\* attempt_user_login, or it has changed the record of a user
Authenticates(r) ==
    \/ r.ret.result.intent_type \in {"login_complete", "login_failed"}
    \/ \E u \in r.db.users \ users_collection :
          \E v \in users_collection : v._id = u._id

\* the stored fields are texts the validators of their steps accepted
ValidatedFields(kyc_data) ==
    /\ "name" \in DOMAIN kyc_data =>
           \E m \in AllMessages :
               Computed[m].valid_name /\ kyc_data["name"] = Computed[m].stripped
    /\ "email" \in DOMAIN kyc_data =>
           \E m \in AllMessages :
               Computed[m].valid_email /\ kyc_data["email"] = Computed[m].stripped_lower
    /\ "mobile" \in DOMAIN kyc_data =>
           \E m \in AllMessages :
               Computed[m].valid_mobile /\ kyc_data["mobile"] = Computed[m].stripped
    /\ "faculty" \in DOMAIN kyc_data =>
           \E m \in AllMessages :
               Computed[m].valid_faculty /\ kyc_data["faculty"] = Computed[m].stripped

\* C37: a turn calls register_user only at register step 5, for a message
\* is_valid_password accepts, with name, email, mobile and faculty stored in
\* kyc_data as their validators accepted them (the password is the fifth
\* field); it calls authenticate_user only at login step 2 with a stored
\* email that is_valid_email accepted; an idle conversation and a message
\* that fails its step's validation call neither.
C37_ServiceCallsOnlyAtFinalSteps ==
    \A c \in started : \A user_message \in AllMessages :
    \A llm \in LLMFor(session[c]) : \A fail \in FailFor(session[c]) :
    \A user \in UserFor(session[c]) : \A old_sessions \in OldSessionsFor(user) :
        LET r == Outcome(c, user_message, llm, fail, FALSE, user, old_sessions)
        IN  /\ Registers(r) =>
                   /\ RegisterStep(session[c], 5)
                   /\ Computed[user_message].valid_password
                   /\ DOMAIN session[c].kyc_data = {"name", "email", "mobile", "faculty"}
                   /\ ValidatedFields(session[c].kyc_data)
            /\ Authenticates(r) =>
                   /\ LoginStep2(session[c])
                   /\ DOMAIN session[c].kyc_data = {"email"}
                   /\ ValidatedFields(session[c].kyc_data)
            /\ session[c].kyc_step = 0 => ~Registers(r) /\ ~Authenticates(r)

\* a registration and a login have both been completed by turns
C37_Witness ==
    /\ ret["c1"].result.intent_type = "register_complete"
    /\ ret["c2"].result.intent_type \in {"login_complete", "login_failed"}
    /\ users_collection # {}


\* C38: between turns no session holds a password in kyc_data, and whatever
\* a turn is sent, with whatever the store does, the session handle_kyc
\* leaves has no password entry: the registration flow and the login flow
\* empty kyc_data after the attempt, succeeded or failed.
C38_PasswordNotRetained ==
    \A c \in Convs :
        /\ "password" \notin DOMAIN session[c].kyc_data
        /\ c \in started =>
               \A user_message \in AllMessages :
               \A llm \in LLMFor(session[c]) : \A fail \in FailFor(session[c]) :
               \A user \in UserFor(session[c]) :
               \A old_sessions \in OldSessionsFor(user) :
                   LET r == Outcome(c, user_message, llm, fail, FALSE, user, old_sessions)
                   IN  /\ "password" \notin DOMAIN r.sess.kyc_data
                       /\ r.ret.result.intent_type
                              \in {"register_complete", "login_complete", "login_failed"}
                          => r.sess.kyc_data = EmptyDict

\* a login has just failed and a registration has just failed, and both
\* sessions are left with empty kyc_data
C38_Witness ==
    \E c, d \in Convs :
        /\ ret[c].result.intent_type = "login_failed"
        /\ session[c].kyc_step = 1
        /\ session[c].kyc_data = EmptyDict
        /\ ret[d].result.intent_type = "register_complete"
        /\ ret[d].result.response_message # "registration_successful"
        /\ session[d].kyc_data = EmptyDict


\* C39: cleanup_expired_sessions deletes only session records whose
\* expires_at lies before now: a record with expires_at > now, and so every
\* record whose token verify_token accepts, is still stored afterwards; no
\* user record changes; the number returned is the number of records
\* deleted, 0 when delete_many raises.
C39_CleanupDeletesOnlyExpired ==
    \A fail \in {"none", "cleanup.delete_many"} :
        LET r == cleanup_expired_sessions(DB, fail, now)
            deleted == sessions_collection \ r.db.sessions
        IN  /\ r.db.sessions \subseteq sessions_collection
            /\ r.db.users = users_collection
            /\ \A s \in deleted : s.expires_at < now
            /\ \A s \in sessions_collection :
                   (s.expires_at > now \/ Verified(s.token) # None)
                       => s \in r.db.sessions
            /\ r.deleted_count = Cardinality(deleted)
            /\ fail = "none" =>
                   \A s \in sessions_collection : s.expires_at < now => s \in deleted

\* a cleanup has just deleted an expired record and left a record that
\* expires later
C39_Witness ==
    /\ out.op = "cleanup_expired_sessions"
    /\ out.deleted_count > 0
    /\ \E s \in sessions_collection : s.expires_at > now
    /\ \A s \in sessions_collection : s.expires_at >= now

=============================================================================
